---- MODULE Spec2Model ----
(***************************************************************************)
(* Proof-of-work nonce search of kalepail/fcm-miner-rust.                  *)
(*                                                                         *)
(* The repository holds several stand-alone miner programs (src/main.rs    *)
(* and the numbered N_main.rs variants).  The variable prog says which     *)
(* program runs; every program has its own actions, translated from its    *)
(* own source file, and they share the state variables that play the same  *)
(* role in each program (a worker's nonce, its digest buffer, the found    *)
(* flag, the hash counter, ...).                                           *)
(*                                                                         *)
(* Keccak-256 is modelled by an oracle H chosen at Init: a function from   *)
(* nonces to 32-byte digests.  The same nonce always has the same digest.  *)
(* A u64 does not fit a TLC integer, so a 64-bit word that is inspected    *)
(* bit by bit is kept as its 8 big-endian bytes.                           *)
(***************************************************************************)
EXTENDS Integers, Sequences, FiniteSets, TLC

\* ------------------------------------------------------------------ bounds
\* num_cpus::get(): the number of worker threads.
NumThreads == 2
\* Largest nonce the oracle H knows; a worker stops hashing beyond it.
MaxNonce == 4
\* Number of sleep-and-report cycles the monitor of 4_main.rs may run.
MaxSamples == 2
\* Number of sampling intervals the monitor runs against a synthetic counter.
MaxCycles == 12
\* Largest per-interval increment of the synthetic counter.
MaxStep == 9

\* ------------------------------------------------------- program constants
\* BATCH_SIZE (50_000 / 1_000_000 / 10_000_000 in the sources), scaled down.
BATCH_SIZE == 2
\* 3_main.rs, 4_main.rs: DIFFICULTY leading zero nibbles.
DIFFICULTY == 9
\* 1_main.rs: DIFFICULTY, used as a count of leading zero BYTES.
DIFFICULTY_1 == 4
\* 2_main.rs: LEADING_ZEROS, used as a count of leading zero BYTES.
LEADING_ZEROS == 4
\* 4_main.rs: capacity of the window of recent rates.
MAX_RATES_BUFFER == 10

Threads == 0 .. (NumThreads - 1)
Nonces == 0 .. MaxNonce
\* u64::MAX of the scaled nonce word (2_main.rs counts down from it).
U64_MAX == MaxNonce

\* -------------------------------------------------------------- digests
None == <<>>

\* The 32-byte digest whose k-th nibble (1-based) is 0 for k <= z, v for
\* k = z+1 and f afterwards.
NibbleAt(z, v, f, k) == IF k <= z THEN 0 ELSE IF k = z + 1 THEN v ELSE f
DigestFrom(z, v, f) ==
    [i \in 1..32 |-> 16 * NibbleAt(z, v, f, 2 * i - 1) + NibbleAt(z, v, f, 2 * i)]

\* Digests the search oracles draw from: no leading zero nibble, exactly 9,
\* exactly 12.
D0 == DigestFrom(0, 15, 10)
D9 == DigestFrom(9, 15, 10)
D12 == DigestFrom(12, 15, 10)

\* A digest with exactly 5 leading zero nibbles.
D5 == DigestFrom(5, 15, 10)

\* A digest with exactly 40 leading zero nibbles.
D40 == DigestFrom(40, 15, 10)

\* Digests the evaluator is applied to on its own.
EvalDigests == {DigestFrom(z, v, f) : z \in 0..64, v \in {1, 4, 15}, f \in {0, 10}}

\* u8::leading_zeros
LeadingZeros8(b) ==
    IF b >= 128 THEN 0 ELSE IF b >= 64 THEN 1 ELSE IF b >= 32 THEN 2
    ELSE IF b >= 16 THEN 3 ELSE IF b >= 8 THEN 4 ELSE IF b >= 4 THEN 5
    ELSE IF b >= 2 THEN 6 ELSE IF b >= 1 THEN 7 ELSE 8

\* u64::from_be_bytes(w).leading_zeros() for the 8 bytes w.
RECURSIVE LeadingZeros64(_)
LeadingZeros64(w) ==
    IF w = <<>> THEN 0
    ELSE IF Head(w) # 0 THEN LeadingZeros8(Head(w))
    ELSE 8 + LeadingZeros64(Tail(w))

\* A mutation of count_leading_hex_zeros: the zero bits are not turned into
\* nibbles.
count_leading_hex_zeros_Bits(hash) ==
    LET first_count == LeadingZeros64(SubSeq(hash, 1, 8))
    IN  IF first_count = 16
        THEN first_count + LeadingZeros64(SubSeq(hash, 9, 16))
        ELSE first_count

\* main.rs, 8_main.rs: count_leading_hex_zeros
count_leading_hex_zeros(hash) ==
    LET first_count == LeadingZeros64(SubSeq(hash, 1, 8)) \div 4
    IN  IF first_count = 16
        THEN first_count + LeadingZeros64(SubSeq(hash, 9, 16)) \div 4
        ELSE first_count

\* 0_main.rs: check_difficulty (its debug lines are written by M0Hash)
check_difficulty_0(hash) == LeadingZeros64(SubSeq(hash, 1, 8)) >= DIFFICULTY * 4

\* 3_main.rs, 4_main.rs: check_difficulty
check_difficulty(hash) == LeadingZeros64(SubSeq(hash, 1, 8)) >= DIFFICULTY * 4

\* 2_main.rs: check_difficulty
check_difficulty_2(hash) == \A i \in 1..LEADING_ZEROS : hash[i] = 0

\* 1_main.rs: the acceptance test of mine_nonce
mine_nonce_accepts(hash) == \A i \in 1..DIFFICULTY_1 : hash[i] = 0

\* 5_main.rs: hash.starts_with(&prefix)
starts_with(hash, p) == Len(p) <= Len(hash) /\ SubSeq(hash, 1, Len(p)) = p

\* main.rs: the match test of the worker loop
CliMatch(hash, tz) == count_leading_hex_zeros(hash) = tz

\* 8_main.rs: the match test of the worker loop
S8Match(hash, tz) == count_leading_hex_zeros(hash) >= tz

\* ------------------------------------------------------- hex arguments
\* A string is a sequence of one-character strings.
Repeat(c, n) == [i \in 1..n |-> c]

\* A well-formed --prev-hash: 64 hex digits.
ValidArg == Repeat("0", 64)

\* Malformed and well-formed values of --prev-hash: 31 bytes, an odd number
\* of digits, a character that is no hex digit, 33 bytes, the empty string.
HexArgs ==
    {ValidArg, Repeat("a", 64), Repeat("0", 62), Repeat("0", 63),
     <<"g">> \o Repeat("0", 63), Repeat("0", 66), <<>>}

\* The value of a hex digit, -1 for any other character (hex::decode takes
\* both cases).
HexVal(c) ==
    CASE c = "0" -> 0 [] c = "1" -> 1 [] c = "2" -> 2 [] c = "3" -> 3
      [] c = "4" -> 4 [] c = "5" -> 5 [] c = "6" -> 6 [] c = "7" -> 7
      [] c = "8" -> 8 [] c = "9" -> 9
      [] c \in {"a", "A"} -> 10 [] c \in {"b", "B"} -> 11
      [] c \in {"c", "C"} -> 12 [] c \in {"d", "D"} -> 13
      [] c \in {"e", "E"} -> 14 [] c \in {"f", "F"} -> 15
      [] OTHER -> -1

\* hex::decode: Err for an odd length or a character that is no hex digit,
\* else the bytes.
hex_decode(str) ==
    IF Len(str) % 2 = 1 \/ (\E i \in 1..Len(str) : HexVal(str[i]) = -1)
    THEN [ok |-> FALSE, bytes |-> <<>>]
    ELSE [ok |-> TRUE,
          bytes |-> [i \in 1..(Len(str) \div 2) |->
                        16 * HexVal(str[2 * i - 1]) + HexVal(str[2 * i])]]

\* A mutation of try_into_32: a shorter vector passes.
try_into_32_AtMost(bytes) == Len(bytes) <= 32

\* Vec<u8>::try_into::<[u8; 32]>() is Ok
try_into_32(bytes) == Len(bytes) = 32

\* ------------------------------------------------------ block templates
\* A u64 is kept as its four 16-bit limbs, the most significant first.
U64(a, b, c, d) == <<a, b, c, d>>

\* u64::to_be_bytes
to_be_bytes(x) ==
    [i \in 1..8 |-> IF i % 2 = 1 THEN x[(i + 1) \div 2] \div 256
                                 ELSE x[i \div 2] % 256]

\* u64::to_le_bytes
to_le_bytes(x) == [i \in 1..8 |-> to_be_bytes(x)[9 - i]]

\* b"Hello, Keccak!", the input of 5_main.rs
input == <<72, 101, 108, 108, 111, 44, 32, 75, 101, 99, 99, 97, 107, 33>>

\* "KALE".as_bytes()
KALE == <<75, 65, 76, 69>>

\* The miner of main (3_main.rs, 4_main.rs).
KaleMiner ==
    <<71, 91, 242, 164, 88, 135, 40, 119, 138, 130, 113, 54, 158, 224, 57, 86,
      17, 3, 255, 206, 53, 73, 64, 44, 224, 164, 121, 206, 191, 27, 9, 245>>

\* The arguments main (4_main.rs) gives to BlockData::new.
KaleArgs ==
    [index |-> U64(0, 0, 0, 1374),
     message |-> KALE,
     prev_hash |-> <<0, 0, 0, 0, 231, 178, 107, 110, 214, 35, 200, 71, 158, 112,
                     48, 62, 115, 134, 14, 30, 144, 120, 252, 35, 159, 26, 108,
                     152, 80, 15, 34, 147>>,
     miner |-> KaleMiner]

\* The arguments main (0_main.rs) gives to BlockData::new.
KaleArgs_0 ==
    [index |-> U64(0, 0, 0, 1360),
     message |-> KALE,
     prev_hash |-> <<0, 0, 0, 0, 247, 76, 18, 217, 131, 35, 62, 105, 247, 183,
                     242, 176, 144, 108, 125, 103, 87, 234, 61, 129, 205, 23,
                     166, 149, 150, 170, 56, 165>>,
     miner |-> KaleMiner]

\* Arguments BlockData::new is applied to on its own: messages of 4, 0, 3 and
\* 5 bytes and one that reads like a tag.
BlockArgs ==
    [index : {U64(0, 0, 0, 1360), U64(0, 0, 1, 0), U64(65535, 65535, 65535, 65535)},
     message : {KALE, <<>>, <<75, 65, 76>>, <<75, 65, 76, 69, 83>>, <<0, 0, 0, 13>>},
     prev_hash : {[i \in 1..32 |-> 0], D9, [i \in 1..32 |-> 255]},
     miner : {[i \in 1..32 |-> 0], KaleMiner}]

\* The bytes BlockData::new puts before the nonce.
BlockPrefix(index, message, prev_hash) ==
    <<0, 0, 0, 5>> \o to_be_bytes(index)
        \o <<0, 0, 0, 14, 0, 0, 0, 4>> \o message
        \o <<0, 0, 0, 13, 0, 0, 0, 32>> \o prev_hash
        \o <<0, 0, 0, 5>>

\* BlockData::new: the template and the offset of its nonce.
BlockDataOf(args) ==
    LET before == BlockPrefix(args.index, args.message, args.prev_hash)
    IN  [combined_data |->
            before \o [i \in 1..8 |-> 0]
                \o <<0, 0, 0, 18, 0, 0, 0, 0, 0, 0, 0, 0>>
                \o args.miner,
         nonce_position |-> Len(before)]

\* 0_main.rs, BlockData::new: static_prefix
static_prefix(args) ==
    <<0, 0, 0, 5>> \o to_be_bytes(args.index)
        \o <<0, 0, 0, 14, 0, 0, 0, 4>> \o args.message
        \o <<0, 0, 0, 13, 0, 0, 0, 32>> \o args.prev_hash
        \o <<0, 0, 0, 5>>

\* 0_main.rs, BlockData::new: static_suffix
static_suffix(args) ==
    <<0, 0, 0, 18, 0, 0, 0, 0, 0, 0, 0, 0>> \o args.miner

\* main.rs, 7_main.rs, 8_main.rs: build_prefix
build_prefix(index, prev_hash) ==
    <<0, 0, 0, 5>> \o to_be_bytes(index)
        \o <<0, 0, 0, 14, 0, 0, 0, 4>> \o KALE
        \o <<0, 0, 0, 13, 0, 0, 0, 32>> \o prev_hash
        \o <<0, 0, 0, 5>>

\* main.rs, 7_main.rs, 8_main.rs: build_suffix
build_suffix == <<0, 0, 0, 18, 0, 0, 0, 0, 0, 0, 0, 0>> \o KaleMiner

\* main.rs, 7_main.rs, 8_main.rs: the buffer of 68 + 8 + 44 zero bytes after
\* the prefix and the suffix have been copied into it.
hasher_buffer_of(index, prev_hash) ==
    build_prefix(index, prev_hash) \o [i \in 1..8 |-> 0] \o build_suffix

\* nonce.to_be_bytes() for a nonce below 2^16.
NonceBytes(n) == to_be_bytes(U64(0, 0, 0, n))

\* A mutation of SetSlot: the bytes land one place further on.
SetSlot_Shifted(data, pos, bytes) ==
    [i \in 1..Len(data) |->
        IF i > pos + 1 /\ i <= pos + 1 + Len(bytes) THEN bytes[i - pos - 1]
        ELSE data[i]]

\* data[pos..pos + bytes.len()].copy_from_slice(bytes)
SetSlot(data, pos, bytes) ==
    [i \in 1..Len(data) |->
        IF i > pos /\ i <= pos + Len(bytes) THEN bytes[i - pos] ELSE data[i]]

\* A mutation of WriteNonce: the workers' buffers are one buffer.
WriteNonce_Shared(buf, t, pos, n) ==
    [u \in DOMAIN buf |-> SetSlot(buf[u], pos, NonceBytes(n))]

\* Worker t copies the bytes of nonce n into the nonce slot of its own buffer.
WriteNonce(buf, t, pos, n) ==
    [buf EXCEPT ![t] = SetSlot(@, pos, NonceBytes(n))]

\* ---------------------------------------------------------------- state
VARIABLES
    prog,             \* which program runs
    num_threads,      \* num_cpus::get(): the number of workers spawned
    H,                \* the hash oracle: nonce -> digest
    target_zeros,     \* CLI argument of main.rs, 8_main.rs
    prefix,           \* argument of find_nonce_with_prefix (5_main.rs)
    prev_hash_arg,    \* CLI argument --prev-hash of main.rs: a string of characters
    block_args,       \* arguments of BlockData::new: index, message, prev_hash, miner
    synth_step,       \* per-interval increment of a synthetic counter
    pc,               \* per worker: position in its code
    nonce,            \* per worker: the nonce it is at
    nonce_start,      \* per worker: start of its current batch (main.rs, 1_main.rs)
    batch_i,          \* per worker: index of the inner batch loop
    local_hash_count, \* per worker: hashes since its last counter update
    hash,             \* per worker: its digest buffer
    ret,              \* per worker: the value its thread returned
    found,            \* the shared found flag
    counter,          \* the shared hash counter
    latest_nonce,     \* 4_main.rs: the latest-nonce cell
    result_nonce,     \* 5_main.rs: result slot, nonce
    result_hash,      \* 5_main.rs: result slot, digest
    printed,          \* result lines written to stdout: <<worker, nonce, digest>>
    exited,           \* the process has ended
    cpc,              \* coordinator: position in its code
    join_i,           \* coordinator: index of the handle it joins next
    solution,         \* coordinator: the result it returns
    mpc,              \* monitor: position in its code
    last_count,       \* monitor: last_count
    rates,            \* monitor: the window of recent rates
    avg_rate,         \* monitor: the mean it last reported, <<sum, length>>
    samples,          \* monitor: number of reports so far
    late_reports,     \* monitor: number of cycles begun after the flag was set
    hashed,           \* history, per worker: the nonces it hashed, in order
    extra,            \* history, per worker: hashes computed while found was set
    setters,          \* history: the workers that set the found flag, in order
    slot_writes,      \* history: writes to the result slot, <<worker, field>>
    ev_hash,          \* evaluator on its own: the digest
    ev_count,         \* evaluator on its own: the count returned
    ev_done,          \* evaluator on its own: has been applied
    combined_data,    \* BlockData.combined_data, empty before BlockData::new
    nonce_position,   \* BlockData.nonce_position
    buffer,           \* worker: its copy of the preimage buffer
    preimage,         \* worker: the bytes it last gave to Keccak
    final_data        \* 3_main.rs, coordinator: the buffer it hashes at the end

vars == <<prog, num_threads, H, target_zeros, prefix, prev_hash_arg, pc,
          nonce, nonce_start, batch_i, local_hash_count, hash, ret, found, counter, latest_nonce,
          result_nonce, result_hash, printed, exited, cpc, join_i, solution,
          mpc, last_count, rates, avg_rate, samples, late_reports, hashed,
          extra, setters,
          slot_writes, ev_hash, ev_count, ev_done, block_args, combined_data,
          nonce_position, synth_step, buffer, preimage, final_data>>

workerVars == <<pc, nonce, nonce_start, batch_i, local_hash_count, hash, ret>>
inputVars == <<prog, num_threads, H, target_zeros, prefix, prev_hash_arg,
               block_args, synth_step>>
coordVars == <<cpc, join_i, solution>>
monitorVars == <<mpc, last_count, rates, avg_rate, samples, late_reports>>
slotVars == <<result_nonce, result_hash, slot_writes>>
evalVars == <<ev_hash, ev_count, ev_done>>
encVars == <<combined_data, nonce_position>>
bufVars == <<buffer, preimage, final_data>>

ZeroHash == [i \in 1..32 |-> 0]

\* The thread ids of the workers: `for thread_id in 0..num_threads`.
Workers == 0 .. (num_threads - 1)

\* First position of a worker of program p.
StartPc(p) ==
    CASE p = "cli" -> "unspawned"
      [] p \in {"s7", "s8"} -> "hash"
      [] p = "eval" -> "idle"
      [] OTHER -> "check"

\* First position of the coordinator of program p.
StartCpc(p) == IF p = "h2" THEN "poll" ELSE IF p = "cli" THEN "parse" ELSE "join"

\* The template main has built before mine_block starts (3_main.rs,
\* 4_main.rs); no template elsewhere.
StartTemplate(p, args) ==
    IF p \in {"b3", "b4"} THEN BlockDataOf(args)
    ELSE [combined_data |-> <<>>, nonce_position |-> 0]

\* The buffer a worker of program p starts with: the clone of the template
\* (3_main.rs, 4_main.rs), the buffer built in the closure (8_main.rs), none
\* before the spawn (main.rs) or at all.
StartBuffer(p, args, prev_hash) ==
    CASE p \in {"b3", "b4"} -> BlockDataOf(args).combined_data
      [] p = "s8" -> hasher_buffer_of(args.index, prev_hash)
      [] OTHER -> <<>>

\* A mutation of StartNonce: the ascending workers start one nonce late.
StartNonce_SkipZero(p, t) == IF p = "h2" THEN U64_MAX - t ELSE t + 1

\* First nonce of worker t of program p.
StartNonce(p, t) == IF p = "h2" THEN U64_MAX - t ELSE t

\* The state after the program p has spawned its threads, for the inputs
\* drawn from the sets given.
InitCore(progs, digests, targets, prefixes, evs, counts, hexargs, blocks) ==
    /\ prog \in progs
    /\ block_args \in blocks
    /\ prev_hash_arg \in hexargs
    /\ combined_data = StartTemplate(prog, block_args).combined_data
    /\ nonce_position = StartTemplate(prog, block_args).nonce_position
    /\ buffer = [t \in Threads |->
                    StartBuffer(prog, block_args, hex_decode(prev_hash_arg).bytes)]
    /\ preimage = [t \in Threads |-> <<>>]
    /\ final_data = <<>>
    /\ num_threads \in counts
    /\ H \in [Nonces -> digests]
    /\ target_zeros \in targets
    /\ prefix \in prefixes
    /\ pc = [t \in Threads |-> StartPc(prog)]
    /\ nonce = [t \in Threads |-> StartNonce(prog, t)]
    /\ nonce_start = [t \in Threads |-> StartNonce(prog, t)]
    /\ batch_i = [t \in Threads |-> 0]
    /\ local_hash_count = [t \in Threads |-> 0]
    /\ hash = [t \in Threads |-> ZeroHash]
    /\ ret = [t \in Threads |-> None]
    /\ found = FALSE
    /\ counter = 0
    /\ latest_nonce = 0
    /\ result_nonce = 0
    /\ result_hash = <<>>
    /\ printed = <<>>
    /\ exited = FALSE
    /\ cpc = StartCpc(prog)
    /\ join_i = 0
    /\ solution = None
    /\ mpc = IF prog = "b4" THEN "check" ELSE IF prog = "s7" THEN "sleep" ELSE "none"
    /\ last_count = 0
    /\ rates = <<>>
    /\ avg_rate = <<0, 0>>
    /\ samples = 0
    /\ late_reports = 0
    /\ hashed = [t \in Threads |-> <<>>]
    /\ extra = [t \in Threads |-> 0]
    /\ setters = <<>>
    /\ slot_writes = <<>>
    /\ ev_hash \in evs
    /\ ev_count = 0
    /\ ev_done = FALSE

\* The same where no synthetic counter runs.
InitAll(progs, digests, targets, prefixes, evs, counts, hexargs, blocks) ==
    /\ InitCore(progs, digests, targets, prefixes, evs, counts, hexargs, blocks)
    /\ synth_step = 0

\* The same for the block of main (4_main.rs).
InitArgs(progs, digests, targets, prefixes, evs, counts, hexargs) ==
    InitAll(progs, digests, targets, prefixes, evs, counts, hexargs, {KaleArgs})

\* The same for a well-formed --prev-hash.
InitWith(progs, digests, targets, prefixes, evs, counts) ==
    InitArgs(progs, digests, targets, prefixes, evs, counts, {ValidArg})

\* The same on a machine of NumThreads cores.
InitFor(progs, digests, targets, prefixes, evs) ==
    InitWith(progs, digests, targets, prefixes, evs, {NumThreads})

\* ------------------------------------------------ the evaluator on its own
\* One application of count_leading_hex_zeros to the digest.
EvalCount ==
    /\ prog = "eval"
    /\ ~ev_done
    /\ ev_count' = count_leading_hex_zeros(ev_hash)
    /\ ev_done' = TRUE
    /\ UNCHANGED <<inputVars, workerVars, found, counter, latest_nonce, slotVars,
                   printed, exited, coordVars, monitorVars, hashed, extra,
                   setters, ev_hash, encVars, bufVars>>

SpecEval ==
    /\ InitFor({"eval"}, {D0}, {0}, {<<>>}, EvalDigests)
    /\ [][EvalCount]_vars

\* --------------------------------------------------------------- main.rs
\* The worker loop of main.rs: worker t hashes nonce_start .. nonce_end - 1
\* one nonce per step, prints and exits on a match, and after a batch adds
\* BATCH_SIZE to the counter and continues at nonce_end.

\* main up to the joins: parse the arguments, decode prev_hash (both unwraps
\* panic on a malformed value), build the buffer, spawn the workers and the
\* monitor.
CliParse ==
    /\ prog = "cli" /\ ~exited
    /\ cpc = "parse"
    /\ LET decoded == hex_decode(prev_hash_arg) IN
        IF decoded.ok /\ try_into_32(decoded.bytes)
        THEN /\ pc' = [t \in Threads |-> IF t \in Workers THEN "hash" ELSE pc[t]]
             /\ mpc' = "sleep"
             /\ cpc' = "join"
             /\ buffer' = [t \in Threads |->
                    IF t \in Workers
                    THEN hasher_buffer_of(block_args.index, decoded.bytes)
                    ELSE buffer[t]]
        ELSE /\ cpc' = "panicked"
             /\ UNCHANGED <<pc, mpc, buffer, final_data>>
    /\ UNCHANGED <<inputVars, nonce, nonce_start, batch_i, local_hash_count, hash,
                   ret, found, counter, latest_nonce, slotVars, printed, exited,
                   join_i, solution, last_count, rates, avg_rate, samples,
                   late_reports,
                   hashed, extra, setters, evalVars, encVars, preimage, final_data>>

\* Monitor: one cycle of the report thread: sleep, read the counter, print
\* the rate, remember the counter.
CliReport ==
    /\ prog = "cli" /\ ~exited
    /\ mpc = "sleep"
    /\ last_count' = counter
    /\ UNCHANGED <<inputVars, workerVars, found, counter, latest_nonce, slotVars,
                   printed, exited, coordVars, mpc, rates, avg_rate, samples,
                   late_reports,
                   hashed, extra, setters, evalVars, encVars, bufVars>>

\* One iteration of `for nonce in nonce_start..nonce_end`.
CliHash(t) ==
    /\ prog = "cli" /\ ~exited
    /\ pc[t] = "hash"
    /\ nonce[t] <= MaxNonce
    /\ buffer' = WriteNonce(buffer, t, 68, nonce[t])
    /\ preimage' = [preimage EXCEPT ![t] = buffer'[t]]
    /\ LET h == H[nonce[t]] IN
        /\ hash' = [hash EXCEPT ![t] = h]
        /\ hashed' = [hashed EXCEPT ![t] = Append(@, nonce[t])]
        /\ IF CliMatch(h, target_zeros)
           THEN /\ pc' = [pc EXCEPT ![t] = "print"]
                /\ nonce' = nonce
           ELSE /\ nonce' = [nonce EXCEPT ![t] = @ + 1]
                /\ pc' = [pc EXCEPT ![t] =
                            IF nonce[t] + 1 = nonce_start[t] + BATCH_SIZE
                            THEN "add" ELSE "hash"]
    /\ UNCHANGED <<inputVars, nonce_start, batch_i, local_hash_count, ret, found,
                   counter, latest_nonce, slotVars, printed, exited, coordVars,
                   monitorVars, extra, setters, evalVars, encVars, final_data>>

\* println!("[{}, \"{}\"]", nonce, hex::encode(hash))
CliPrint(t) ==
    /\ prog = "cli" /\ ~exited
    /\ pc[t] = "print"
    /\ printed' = Append(printed, <<t, nonce[t], hash[t]>>)
    /\ pc' = [pc EXCEPT ![t] = "count"]
    /\ UNCHANGED <<inputVars, nonce, nonce_start, batch_i, local_hash_count, hash,
                   ret, found, counter, latest_nonce, slotVars, exited, coordVars,
                   monitorVars, hashed, extra, setters, evalVars, encVars, bufVars>>

\* counter.fetch_add(1) for the final hash
CliCountFinal(t) ==
    /\ prog = "cli" /\ ~exited
    /\ pc[t] = "count"
    /\ counter' = counter + 1
    /\ pc' = [pc EXCEPT ![t] = "exit"]
    /\ UNCHANGED <<inputVars, nonce, nonce_start, batch_i, local_hash_count, hash,
                   ret, found, latest_nonce, slotVars, printed, exited, coordVars,
                   monitorVars, hashed, extra, setters, evalVars, encVars, bufVars>>

\* std::process::exit(0): the process and all its threads end.
CliExit(t) ==
    /\ prog = "cli" /\ ~exited
    /\ pc[t] = "exit"
    /\ exited' = TRUE
    /\ pc' = [pc EXCEPT ![t] = "exited"]
    /\ UNCHANGED <<inputVars, nonce, nonce_start, batch_i, local_hash_count, hash,
                   ret, found, counter, latest_nonce, slotVars, printed, coordVars,
                   monitorVars, hashed, extra, setters, evalVars, encVars, bufVars>>

\* counter.fetch_add(BATCH_SIZE_U64); nonce_start = nonce_end
CliBatchAdd(t) ==
    /\ prog = "cli" /\ ~exited
    /\ pc[t] = "add"
    /\ counter' = counter + BATCH_SIZE
    /\ nonce_start' = [nonce_start EXCEPT ![t] = @ + BATCH_SIZE]
    /\ nonce' = [nonce EXCEPT ![t] = nonce_start[t] + BATCH_SIZE]
    /\ pc' = [pc EXCEPT ![t] = "hash"]
    /\ UNCHANGED <<inputVars, batch_i, local_hash_count, hash, ret, found,
                   latest_nonce, slotVars, printed, exited, coordVars,
                   monitorVars, hashed, extra, setters, evalVars, encVars, bufVars>>

NextCli ==
    \/ CliParse
    \/ CliReport
    \/ \E t \in Workers :
        \/ CliHash(t)
        \/ CliPrint(t)
        \/ CliCountFinal(t)
        \/ CliExit(t)
        \/ CliBatchAdd(t)

InitCli == InitFor({"cli"}, {D0, D9, D12}, {0, 9}, {<<>>}, {ZeroHash})

SpecCli == InitCli /\ [][NextCli]_vars

\* ------------------------------------------------------------- 8_main.rs
\* One iteration of `for _ in 0..BATCH_SIZE` of the worker loop.
S8Hash(t) ==
    /\ prog = "s8" /\ ~exited
    /\ pc[t] = "hash"
    /\ nonce[t] <= MaxNonce
    /\ buffer' = WriteNonce(buffer, t, 68, nonce[t])
    /\ preimage' = [preimage EXCEPT ![t] = buffer'[t]]
    /\ LET h == H[nonce[t]] IN
        /\ hash' = [hash EXCEPT ![t] = h]
        /\ hashed' = [hashed EXCEPT ![t] = Append(@, nonce[t])]
        /\ IF S8Match(h, target_zeros)
           THEN /\ pc' = [pc EXCEPT ![t] = "print"]
                /\ UNCHANGED <<nonce, batch_i, final_data>>
           ELSE /\ nonce' = [nonce EXCEPT ![t] = @ + num_threads]
                /\ batch_i' = [batch_i EXCEPT ![t] = (@ + 1) % BATCH_SIZE]
                /\ pc' = pc
    /\ UNCHANGED <<inputVars, nonce_start, local_hash_count, ret, found, counter,
                   latest_nonce, slotVars, printed, exited, coordVars,
                   monitorVars, extra, setters, evalVars, encVars, final_data>>

\* println!("[{}, \"{}\"]", nonce, hex::encode(hash))
S8Print(t) ==
    /\ prog = "s8" /\ ~exited
    /\ pc[t] = "print"
    /\ printed' = Append(printed, <<t, nonce[t], hash[t]>>)
    /\ pc' = [pc EXCEPT ![t] = "exit"]
    /\ UNCHANGED <<inputVars, nonce, nonce_start, batch_i, local_hash_count, hash,
                   ret, found, counter, latest_nonce, slotVars, exited, coordVars,
                   monitorVars, hashed, extra, setters, evalVars, encVars, bufVars>>

\* std::process::exit(0)
S8Exit(t) ==
    /\ prog = "s8" /\ ~exited
    /\ pc[t] = "exit"
    /\ exited' = TRUE
    /\ pc' = [pc EXCEPT ![t] = "exited"]
    /\ UNCHANGED <<inputVars, nonce, nonce_start, batch_i, local_hash_count, hash,
                   ret, found, counter, latest_nonce, slotVars, printed, coordVars,
                   monitorVars, hashed, extra, setters, evalVars, encVars, bufVars>>

\* Worker: the println! of the result fails (standard output cannot be
\* written): the thread panics before process::exit.
S8PrintPanic(t) ==
    /\ prog = "s8" /\ ~exited
    /\ pc[t] = "print"
    /\ pc' = [pc EXCEPT ![t] = "panicked"]
    /\ UNCHANGED <<inputVars, nonce, nonce_start, batch_i, local_hash_count, hash,
                   ret, found, counter, latest_nonce, slotVars, printed, exited,
                   coordVars, monitorVars, hashed, extra, setters, evalVars, encVars, bufVars>>

\* main: `let _ = handle.join()` for the next handle.  The join blocks until
\* the worker has ended, which it does only by a panic; the result of the
\* join is dropped, and after the last handle main returns.
S8MainJoin ==
    /\ prog = "s8" /\ ~exited
    /\ cpc = "join"
    /\ join_i < num_threads
    /\ pc[join_i] = "panicked"
    /\ join_i' = join_i + 1
    /\ cpc' = IF join_i + 1 = num_threads THEN "returned" ELSE "join"
    /\ UNCHANGED <<inputVars, workerVars, found, counter, latest_nonce, slotVars,
                   printed, exited, solution, monitorVars, hashed, extra, setters,
                   evalVars, encVars, bufVars>>

NextS8 ==
    \E t \in Workers :
        \/ S8Hash(t)
        \/ S8Print(t)
        \/ S8Exit(t)

\* ------------------------------------------------------------- 7_main.rs
\* One iteration of `for _ in 0..BATCH_SIZE` of the worker loop: Keccak is
\* given nonce.to_be_bytes() alone (the update of the buffer is commented
\* out), and the hash is counted at once.
S7Hash(t) ==
    /\ prog = "s7" /\ ~exited
    /\ pc[t] = "hash"
    /\ nonce[t] <= MaxNonce
    /\ preimage' = [preimage EXCEPT ![t] = NonceBytes(nonce[t])]
    /\ counter' = counter + 1
    /\ LET h == H[nonce[t]] IN
        /\ hash' = [hash EXCEPT ![t] = h]
        /\ hashed' = [hashed EXCEPT ![t] = Append(@, nonce[t])]
        /\ IF S8Match(h, target_zeros)
           THEN /\ pc' = [pc EXCEPT ![t] = "print"]
                /\ UNCHANGED <<nonce, batch_i, final_data>>
           ELSE /\ nonce' = [nonce EXCEPT ![t] = @ + num_threads]
                /\ batch_i' = [batch_i EXCEPT ![t] = (@ + 1) % BATCH_SIZE]
                /\ pc' = pc
    /\ UNCHANGED <<inputVars, nonce_start, local_hash_count, ret, found,
                   latest_nonce, slotVars, printed, exited, coordVars,
                   monitorVars, extra, setters, evalVars, encVars, buffer, final_data>>

\* println!("[{}, \"{}\"]", nonce, hex::encode(hash))
S7Print(t) ==
    /\ prog = "s7" /\ ~exited
    /\ pc[t] = "print"
    /\ printed' = Append(printed, <<t, nonce[t], hash[t]>>)
    /\ pc' = [pc EXCEPT ![t] = "exit"]
    /\ UNCHANGED <<inputVars, nonce, nonce_start, batch_i, local_hash_count, hash,
                   ret, found, counter, latest_nonce, slotVars, exited, coordVars,
                   monitorVars, hashed, extra, setters, evalVars, encVars,
                   bufVars>>

\* std::process::exit(0)
S7Exit(t) ==
    /\ prog = "s7" /\ ~exited
    /\ pc[t] = "exit"
    /\ exited' = TRUE
    /\ pc' = [pc EXCEPT ![t] = "exited"]
    /\ UNCHANGED <<inputVars, nonce, nonce_start, batch_i, local_hash_count, hash,
                   ret, found, counter, latest_nonce, slotVars, printed, coordVars,
                   monitorVars, hashed, extra, setters, evalVars, encVars,
                   bufVars>>

\* The logger thread of start_hashrate_logger: one cycle: sleep, read
\* HASH_COUNT, print the rate, remember the count.
S7Report ==
    /\ prog = "s7" /\ ~exited
    /\ mpc = "sleep"
    /\ last_count' = counter
    /\ UNCHANGED <<inputVars, workerVars, found, counter, latest_nonce, slotVars,
                   printed, exited, coordVars, mpc, rates, avg_rate, samples,
                   late_reports, hashed, extra, setters, evalVars, encVars,
                   bufVars>>

NextS7 ==
    \/ S7Report
    \/ \E t \in Workers :
        \/ S7Hash(t)
        \/ S7Print(t)
        \/ S7Exit(t)

InitS7 == InitFor({"s7"}, {D0, D9}, {0, 9}, {<<>>}, {ZeroHash})

SpecS7 == InitS7 /\ [][NextS7]_vars

\* ------------------------------------------------------------- 4_main.rs
\* A mutation of B4Check: the worker leaves its loop whatever the flag is.
B4Check_Leaves(t) ==
    /\ prog = "b4"
    /\ pc[t] = "check"
    /\ pc' = [pc EXCEPT ![t] = "done"]
    /\ ret' = [ret EXCEPT ![t] = None]
    /\ UNCHANGED <<inputVars, nonce, nonce_start, batch_i, local_hash_count, hash,
                   found, counter, latest_nonce, slotVars, printed, exited,
                   coordVars, monitorVars, hashed, extra, setters, evalVars, encVars, bufVars>>

\* Worker: `while !found.load(Relaxed)`; a set flag ends the loop and the
\* thread returns None.  A worker that has gone through its nonces up to
\* MaxNonce goes on only to leave.
B4Check(t) ==
    /\ prog = "b4"
    /\ pc[t] = "check"
    /\ nonce[t] <= MaxNonce \/ found
    /\ IF found
       THEN /\ pc' = [pc EXCEPT ![t] = "done"]
            /\ ret' = [ret EXCEPT ![t] = None]
       ELSE /\ pc' = [pc EXCEPT ![t] = "hash"]
            /\ ret' = ret
    /\ UNCHANGED <<inputVars, nonce, nonce_start, batch_i, local_hash_count, hash,
                   found, counter, latest_nonce, slotVars, printed, exited,
                   coordVars, monitorVars, hashed, extra, setters, evalVars, encVars, bufVars>>

\* A mutation of B4NextNonce: the worker steps by one.
B4NextNonce_StepOne(n) == n + 1

\* Worker: nonce += num_threads as u64
B4NextNonce(n) == n + num_threads

\* Worker: write the nonce, hash the buffer, test the digest; on a miss
\* advance the nonce by num_threads and count the hash.
B4Hash(t) ==
    /\ prog = "b4"
    /\ pc[t] = "hash"
    /\ nonce[t] <= MaxNonce
    /\ buffer' = WriteNonce(buffer, t, nonce_position, nonce[t])
    /\ preimage' = [preimage EXCEPT ![t] = buffer'[t]]
    /\ LET h == H[nonce[t]] IN
        /\ hash' = [hash EXCEPT ![t] = h]
        /\ hashed' = [hashed EXCEPT ![t] = Append(@, nonce[t])]
        /\ extra' = [extra EXCEPT ![t] = IF found THEN @ + 1 ELSE @]
        /\ IF check_difficulty(h)
           THEN /\ pc' = [pc EXCEPT ![t] = "store"]
                /\ UNCHANGED <<nonce, local_hash_count, final_data>>
           ELSE /\ nonce' = [nonce EXCEPT ![t] = B4NextNonce(@)]
                /\ local_hash_count' = [local_hash_count EXCEPT ![t] = @ + 1]
                /\ pc' = [pc EXCEPT ![t] =
                            IF local_hash_count[t] + 1 >= BATCH_SIZE
                            THEN "add" ELSE "check"]
    /\ UNCHANGED <<inputVars, nonce_start, batch_i, ret, found, counter,
                   latest_nonce, slotVars, printed, exited, coordVars,
                   monitorVars, setters, evalVars, encVars, final_data>>

\* Worker: found.store(true, Release); return Some((nonce, hash))
B4Store(t) ==
    /\ prog = "b4"
    /\ pc[t] = "store"
    /\ found' = TRUE
    /\ setters' = Append(setters, t)
    /\ ret' = [ret EXCEPT ![t] = <<nonce[t], hash[t]>>]
    /\ pc' = [pc EXCEPT ![t] = "done"]
    /\ UNCHANGED <<inputVars, nonce, nonce_start, batch_i, local_hash_count, hash,
                   counter, latest_nonce, slotVars, printed, exited, coordVars,
                   monitorVars, hashed, extra, evalVars, encVars, bufVars>>

\* A mutation of B4Add: the local count is added twice.
B4Add_Twice(t) ==
    /\ prog = "b4"
    /\ pc[t] = "add"
    /\ counter' = counter + 2 * local_hash_count[t]
    /\ pc' = [pc EXCEPT ![t] = "latest"]
    /\ UNCHANGED <<inputVars, nonce, nonce_start, batch_i, local_hash_count, hash,
                   ret, found, latest_nonce, slotVars, printed, exited, coordVars,
                   monitorVars, hashed, extra, setters, evalVars, encVars, bufVars>>

\* Worker: hash_count.fetch_add(local_hash_count, Relaxed)
B4Add(t) ==
    /\ prog = "b4"
    /\ pc[t] = "add"
    /\ counter' = counter + local_hash_count[t]
    /\ pc' = [pc EXCEPT ![t] = "latest"]
    /\ UNCHANGED <<inputVars, nonce, nonce_start, batch_i, local_hash_count, hash,
                   ret, found, latest_nonce, slotVars, printed, exited, coordVars,
                   monitorVars, hashed, extra, setters, evalVars, encVars, bufVars>>

\* Worker: latest_nonce_thread.store(nonce, Relaxed); local_hash_count = 0
B4Latest(t) ==
    /\ prog = "b4"
    /\ pc[t] = "latest"
    /\ latest_nonce' = nonce[t]
    /\ local_hash_count' = [local_hash_count EXCEPT ![t] = 0]
    /\ pc' = [pc EXCEPT ![t] = "check"]
    /\ UNCHANGED <<inputVars, nonce, nonce_start, batch_i, hash, ret, found,
                   counter, slotVars, printed, exited, coordVars, monitorVars,
                   hashed, extra, setters, evalVars, encVars, bufVars>>

\* Monitor: `while !found_debug.load(Relaxed)`
M4Check ==
    /\ prog = "b4"
    /\ mpc = "check"
    /\ mpc' = IF found THEN "done" ELSE "sleep"
    /\ UNCHANGED <<inputVars, workerVars, found, counter, latest_nonce, slotVars,
                   printed, exited, coordVars, last_count, rates, avg_rate,
                   samples, late_reports, hashed, extra, setters, evalVars, encVars, bufVars>>

RECURSIVE SeqSum(_)
SeqSum(q) == IF q = <<>> THEN 0 ELSE Head(q) + SeqSum(Tail(q))

\* A mutation of saturating_sub: nothing is subtracted.
saturating_sub_Keep(a, b) == a

\* current_count.saturating_sub(last_count)
saturating_sub(a, b) == IF a >= b THEN a - b ELSE 0

\* A mutation of PushRate: a full window drops its newest sample.
PushRate_DropsNewest(q, rate) ==
    LET pushed == Append(q, rate)
    IN  IF Len(pushed) > MAX_RATES_BUFFER THEN q ELSE pushed

\* rates.push_back(rate); if rates.len() > MAX_RATES_BUFFER { rates.pop_front() }
PushRate(q, rate) ==
    LET pushed == Append(q, rate)
    IN  IF Len(pushed) > MAX_RATES_BUFFER THEN Tail(pushed) ELSE pushed

\* Monitor: the body of one cycle for the counter value read: the rate of the
\* cycle is the number of hashes counted in it (the interval is the unit of
\* time), it is pushed on the window, and the mean of the window is kept as
\* the pair <<sum of the window, length of the window>>.
M4Sample(current_count) ==
    LET hash_diff == saturating_sub(current_count, last_count)
        window == PushRate(rates, hash_diff)
    IN  [rates |-> window,
         avg_rate |-> <<SeqSum(window), Len(window)>>,
         last_count |-> current_count]

\* A mutation of M4Report: the monitor takes the counter instead of reading
\* it.
M4Report_TakesCounter ==
    /\ prog = "b4"
    /\ mpc = "sleep"
    /\ samples < MaxSamples \/ found
    /\ LET sample == M4Sample(counter) IN
        /\ rates' = sample.rates
        /\ avg_rate' = sample.avg_rate
        /\ last_count' = sample.last_count
    /\ counter' = 0
    /\ samples' = samples + 1
    /\ late_reports' = IF found THEN late_reports + 1 ELSE late_reports
    /\ mpc' = "check"
    /\ UNCHANGED <<inputVars, workerVars, found, latest_nonce, slotVars,
                   printed, exited, coordVars, hashed, extra, setters, evalVars, encVars, bufVars>>

\* Monitor: one sleep-and-report cycle.  The rate of a cycle is the number of
\* hashes counted in it (the interval is the unit of time); the mean is kept
\* as the pair <<sum of the window, length of the window>>.  The cycles before
\* the flag is set are counted up to MaxSamples.
M4Report ==
    /\ prog = "b4"
    /\ mpc = "sleep"
    /\ samples < MaxSamples \/ found
    /\ LET sample == M4Sample(counter) IN
        /\ rates' = sample.rates
        /\ avg_rate' = sample.avg_rate
        /\ last_count' = sample.last_count
    /\ samples' = samples + 1
    /\ late_reports' = IF found THEN late_reports + 1 ELSE late_reports
    /\ mpc' = "check"
    /\ UNCHANGED <<inputVars, workerVars, found, counter, latest_nonce, slotVars,
                   printed, exited, coordVars, hashed, extra, setters, evalVars, encVars, bufVars>>

\* Monitor: a sleep-and-report cycle whose println! fails (standard output is
\* closed): the thread panics after it has pushed the rate.
M4ReportPanic ==
    /\ prog = "b4"
    /\ mpc = "sleep"
    /\ samples < MaxSamples \/ found
    /\ LET sample == M4Sample(counter) IN
        /\ rates' = sample.rates
        /\ avg_rate' = sample.avg_rate
    /\ late_reports' = IF found THEN late_reports + 1 ELSE late_reports
    /\ mpc' = "panicked"
    /\ UNCHANGED <<inputVars, workerVars, found, counter, latest_nonce, slotVars,
                   printed, exited, coordVars, last_count, samples, hashed,
                   extra, setters, evalVars, encVars, bufVars>>

\* Coordinator: one step of handles.into_iter().find_map(|h| h.join().unwrap())
\* followed by .expect("Solution should be found").  The join blocks until
\* the worker has finished; the first Some ends the iteration and the
\* handles not yet visited are dropped without a join.
B4Join ==
    /\ prog = "b4"
    /\ cpc = "join"
    /\ join_i < num_threads
    /\ pc[join_i] = "done"
    /\ IF ret[join_i] # None
       THEN /\ solution' = ret[join_i]
            /\ cpc' = "join_debug"
            /\ join_i' = join_i
       ELSE /\ solution' = solution
            /\ join_i' = join_i + 1
            /\ cpc' = IF join_i + 1 = num_threads THEN "panic" ELSE "join"
    /\ UNCHANGED <<inputVars, workerVars, found, counter, latest_nonce, slotVars,
                   printed, exited, monitorVars, hashed, extra, setters, evalVars, encVars, bufVars>>

\* A mutation of B4JoinDebug: the coordinator returns without joining the
\* monitor.
B4JoinDebug_NoWait ==
    /\ prog = "b4"
    /\ cpc = "join_debug"
    /\ cpc' = "returned"
    /\ UNCHANGED <<inputVars, workerVars, found, counter, latest_nonce, slotVars,
                   printed, exited, join_i, solution, monitorVars, hashed, extra,
                   setters, evalVars, encVars, bufVars>>

\* Coordinator: debug_handle.join().unwrap(), the final report, and the
\* return of (solution, final_hash).  The join blocks until the monitor has
\* ended; the unwrap panics when the monitor has panicked.
B4JoinDebug ==
    /\ prog = "b4"
    /\ cpc = "join_debug"
    /\ mpc \in {"done", "panicked"}
    /\ cpc' = IF mpc = "panicked" THEN "panic" ELSE "returned"
    /\ UNCHANGED <<inputVars, workerVars, found, counter, latest_nonce, slotVars,
                   printed, exited, join_i, solution, monitorVars, hashed, extra,
                   setters, evalVars, encVars, bufVars>>

NextB4 ==
    \/ \E t \in Workers :
        \/ B4Check(t)
        \/ B4Hash(t)
        \/ B4Store(t)
        \/ B4Add(t)
        \/ B4Latest(t)
    \/ M4Check
    \/ M4Report
    \/ B4Join
    \/ B4JoinDebug

InitB4 == InitFor({"b4"}, {D0, D9}, {0}, {<<>>}, {ZeroHash})

SpecB4 == InitB4 /\ [][NextB4]_vars

\* The oracle whose digests with leading zeros are those of the nonces from
\* k on (of none, when k is beyond the last nonce).
FromNonceOn(k) == H = [n \in Nonces |-> IF n < k THEN D0 ELSE D9]

\* mine_block over the oracles that change from the one digest to the other
\* once.
InitB4Stepped ==
    /\ InitB4
    /\ \E k \in 0..(MaxNonce + 1) : FromNonceOn(k)

\* mine_block where the monitor's println! may fail.
NextB4Faulty == NextB4 \/ M4ReportPanic
SpecB4Faulty == InitB4Stepped /\ [][NextB4Faulty]_vars

\* The same with threads that are scheduled: a thread that can take a step
\* takes one.
FairB4 ==
    /\ WF_vars(M4Check)
    /\ WF_vars(M4Report \/ M4ReportPanic)
    /\ \A t \in Threads :
        WF_vars(B4Check(t) \/ B4Hash(t) \/ B4Store(t) \/ B4Add(t) \/ B4Latest(t))
    /\ WF_vars(B4Join \/ B4JoinDebug)

\* Oracles whose qualifying nonces are all of them, all but the first, all
\* from the second round on, or none.
InitB4Fair ==
    /\ InitB4
    /\ \E k \in {0, 1, NumThreads, MaxNonce + 1} : FromNonceOn(k)
SpecB4Fair == InitB4Fair /\ [][NextB4Faulty]_vars /\ FairB4

\* 4_main.rs and 8_main.rs: the two programs whose workers stride by the
\* worker count.
SpecStride ==
    /\ \/ InitB4
       \/ InitFor({"s8"}, {D0, D9}, {0, 9}, {<<>>}, {ZeroHash})
    /\ [][NextB4 \/ NextS8]_vars

\* ------------------------------------------------------------- 3_main.rs
\* Worker: `while !found.load(Relaxed)`.  A worker that has gone through its
\* nonces up to MaxNonce goes on only to leave.
B3Check(t) ==
    /\ prog = "b3"
    /\ pc[t] = "check"
    /\ nonce[t] <= MaxNonce \/ found
    /\ IF found
       THEN /\ pc' = [pc EXCEPT ![t] = "done"]
            /\ ret' = [ret EXCEPT ![t] = None]
       ELSE /\ pc' = [pc EXCEPT ![t] = "hash"]
            /\ ret' = ret
    /\ UNCHANGED <<inputVars, nonce, nonce_start, batch_i, local_hash_count, hash,
                   found, counter, latest_nonce, slotVars, printed, exited,
                   coordVars, monitorVars, hashed, extra, setters, evalVars, encVars, bufVars>>

\* Worker: write the nonce, hash the buffer, test the digest.
B3Hash(t) ==
    /\ prog = "b3"
    /\ pc[t] = "hash"
    /\ nonce[t] <= MaxNonce
    /\ buffer' = WriteNonce(buffer, t, nonce_position, nonce[t])
    /\ preimage' = [preimage EXCEPT ![t] = buffer'[t]]
    /\ LET h == H[nonce[t]] IN
        /\ hash' = [hash EXCEPT ![t] = h]
        /\ hashed' = [hashed EXCEPT ![t] = Append(@, nonce[t])]
        /\ extra' = [extra EXCEPT ![t] = IF found THEN @ + 1 ELSE @]
        /\ IF check_difficulty(h)
           THEN /\ pc' = [pc EXCEPT ![t] = "store"]
                /\ UNCHANGED <<nonce, local_hash_count, final_data>>
           ELSE /\ nonce' = [nonce EXCEPT ![t] = @ + num_threads]
                /\ local_hash_count' = [local_hash_count EXCEPT ![t] = @ + 1]
                /\ pc' = [pc EXCEPT ![t] =
                            IF local_hash_count[t] + 1 >= BATCH_SIZE
                            THEN "add" ELSE "check"]
    /\ UNCHANGED <<inputVars, nonce_start, batch_i, ret, found, counter,
                   latest_nonce, slotVars, printed, exited, coordVars,
                   monitorVars, setters, evalVars, encVars, final_data>>

\* Worker: found.store(true, Release); return Some(nonce)
B3Store(t) ==
    /\ prog = "b3"
    /\ pc[t] = "store"
    /\ found' = TRUE
    /\ setters' = Append(setters, t)
    /\ ret' = [ret EXCEPT ![t] = <<nonce[t]>>]
    /\ pc' = [pc EXCEPT ![t] = "done"]
    /\ UNCHANGED <<inputVars, nonce, nonce_start, batch_i, local_hash_count, hash,
                   counter, latest_nonce, slotVars, printed, exited, coordVars,
                   monitorVars, hashed, extra, evalVars, encVars, bufVars>>

\* Worker: hash_count.fetch_add(local_hash_count); local_hash_count = 0
B3Add(t) ==
    /\ prog = "b3"
    /\ pc[t] = "add"
    /\ counter' = counter + local_hash_count[t]
    /\ local_hash_count' = [local_hash_count EXCEPT ![t] = 0]
    /\ pc' = [pc EXCEPT ![t] = "check"]
    /\ UNCHANGED <<inputVars, nonce, nonce_start, batch_i, hash, ret, found,
                   latest_nonce, slotVars, printed, exited, coordVars,
                   monitorVars, hashed, extra, setters, evalVars, encVars, bufVars>>

\* Coordinator: one step of find_map(|h| h.join().unwrap()).expect(..)
B3Join ==
    /\ prog = "b3"
    /\ cpc = "join"
    /\ join_i < num_threads
    /\ pc[join_i] = "done"
    /\ IF ret[join_i] # None
       THEN /\ solution' = ret[join_i]
            /\ cpc' = "final"
            /\ join_i' = join_i
       ELSE /\ solution' = solution
            /\ join_i' = join_i + 1
            /\ cpc' = IF join_i + 1 = num_threads THEN "panic" ELSE "join"
    /\ UNCHANGED <<inputVars, workerVars, found, counter, latest_nonce, slotVars,
                   printed, exited, monitorVars, hashed, extra, setters, evalVars, encVars, bufVars>>

\* The nonce carried by the 8 bytes of data after nonce_position (the
\* nonces of the model fit the last two).
NonceAt(data) ==
    256 * data[nonce_position + 7] + data[nonce_position + 8]

\* calculate_hash: Keccak-256 of a block buffer, which the oracle gives by
\* the nonce the buffer carries.
calculate_hash(data) == H[NonceAt(data)]

\* A mutation of B3Return: the buffer is hashed before the nonce is copied
\* into it.
B3Return_BeforeCopy ==
    /\ prog = "b3"
    /\ cpc = "final"
    /\ final_data' = SetSlot(combined_data, nonce_position,
                             NonceBytes(solution[1]))
    /\ solution' = <<solution[1], calculate_hash(combined_data)>>
    /\ cpc' = "returned"
    /\ UNCHANGED <<inputVars, workerVars, found, counter, latest_nonce, slotVars,
                   printed, exited, join_i, monitorVars, hashed, extra, setters,
                   evalVars, encVars, buffer, preimage>>

\* Coordinator: copy the winning nonce into a clone of the template, hash it
\* and return (solution, final_hash).
B3Return ==
    /\ prog = "b3"
    /\ cpc = "final"
    /\ final_data' = SetSlot(combined_data, nonce_position,
                             NonceBytes(solution[1]))
    /\ solution' = <<solution[1], calculate_hash(final_data')>>
    /\ cpc' = "returned"
    /\ UNCHANGED <<inputVars, workerVars, found, counter, latest_nonce, slotVars,
                   printed, exited, join_i, monitorVars, hashed, extra, setters,
                   evalVars, encVars, buffer, preimage>>

NextB3 ==
    \/ \E t \in Workers :
        \/ B3Check(t)
        \/ B3Hash(t)
        \/ B3Store(t)
        \/ B3Add(t)
    \/ B3Join
    \/ B3Return

InitB3 == InitFor({"b3"}, {D0, D9}, {0}, {<<>>}, {ZeroHash})

\* 3_main.rs and 4_main.rs: the two mine_block programs.
SpecBlock ==
    /\ InitB3 \/ InitB4
    /\ [][NextB3 \/ NextB4]_vars

\* ------------------------------------------------------------- 2_main.rs
\* A mutation of next_nonce_2_steps: the branches are split one nonce late.
next_nonce_2_steps_Late(n) ==
    IF n > num_threads THEN <<n - num_threads>>
    ELSE <<n + 1, num_threads - (n + 1), U64_MAX - (num_threads - (n + 1))>>

\* The descending nonce update of mine_hashes: the values it computes one
\* after the other, the last being the new nonce.
next_nonce_2_steps(n) ==
    IF n >= num_threads THEN <<n - num_threads>>
    ELSE <<n + 1, num_threads - (n + 1), U64_MAX - (num_threads - (n + 1))>>

\* The new nonce.
next_nonce_2(n) == next_nonce_2_steps(n)[Len(next_nonce_2_steps(n))]

\* Worker: `while !data.solution_found.load(Acquire)`
H2Check(t) ==
    /\ prog = "h2" /\ ~exited
    /\ pc[t] = "check"
    /\ IF found
       THEN /\ pc' = [pc EXCEPT ![t] = "done"]
            /\ batch_i' = batch_i
       ELSE /\ pc' = [pc EXCEPT ![t] = "hash"]
            /\ batch_i' = [batch_i EXCEPT ![t] = 0]
    /\ UNCHANGED <<inputVars, nonce, nonce_start, local_hash_count, hash, ret,
                   found, counter, latest_nonce, slotVars, printed, exited,
                   coordVars, monitorVars, hashed, extra, setters, evalVars, encVars, bufVars>>

\* Worker: one iteration of `for _ in 0..BATCH_SIZE`.  The nonce wraps around
\* and the loop has no end of its own: a worker hashes at most MaxNonce + 1
\* nonces here.
H2Hash(t) ==
    /\ prog = "h2" /\ ~exited
    /\ pc[t] = "hash"
    /\ Len(hashed[t]) <= MaxNonce
    /\ LET h == H[nonce[t]] IN
        /\ hash' = [hash EXCEPT ![t] = h]
        /\ hashed' = [hashed EXCEPT ![t] = Append(@, nonce[t])]
        /\ extra' = [extra EXCEPT ![t] = IF found THEN @ + 1 ELSE @]
        /\ IF check_difficulty_2(h)
           THEN /\ pc' = [pc EXCEPT ![t] = "print"]
                /\ UNCHANGED <<nonce, batch_i, final_data>>
           ELSE /\ nonce' = [nonce EXCEPT ![t] = next_nonce_2(@)]
                /\ batch_i' = [batch_i EXCEPT ![t] = @ + 1]
                /\ pc' = [pc EXCEPT ![t] =
                            IF batch_i[t] + 1 = BATCH_SIZE THEN "add" ELSE "hash"]
    /\ UNCHANGED <<inputVars, nonce_start, local_hash_count, ret, found, counter,
                   latest_nonce, slotVars, printed, exited, coordVars,
                   monitorVars, setters, evalVars, encVars, bufVars>>

\* Worker: println!("\nFound solution! Nonce: {}", nonce); println!("Hash: ..")
H2Print(t) ==
    /\ prog = "h2" /\ ~exited
    /\ pc[t] = "print"
    /\ printed' = Append(printed, <<t, nonce[t], hash[t]>>)
    /\ pc' = [pc EXCEPT ![t] = "store"]
    /\ UNCHANGED <<inputVars, nonce, nonce_start, batch_i, local_hash_count, hash,
                   ret, found, counter, latest_nonce, slotVars, exited, coordVars,
                   monitorVars, hashed, extra, setters, evalVars, encVars, bufVars>>

\* Worker: data.solution_found.store(true, Release); return
H2Store(t) ==
    /\ prog = "h2" /\ ~exited
    /\ pc[t] = "store"
    /\ found' = TRUE
    /\ setters' = Append(setters, t)
    /\ pc' = [pc EXCEPT ![t] = "done"]
    /\ UNCHANGED <<inputVars, nonce, nonce_start, batch_i, local_hash_count, hash,
                   ret, counter, latest_nonce, slotVars, printed, exited,
                   coordVars, monitorVars, hashed, extra, evalVars, encVars, bufVars>>

\* A mutation of H2Add: the worker starts its next batch without looking at
\* the flag.
H2Add_NoRecheck(t) ==
    /\ prog = "h2" /\ ~exited
    /\ pc[t] = "add"
    /\ counter' = counter + BATCH_SIZE
    /\ pc' = [pc EXCEPT ![t] = "hash"]
    /\ batch_i' = [batch_i EXCEPT ![t] = 0]
    /\ UNCHANGED <<inputVars, nonce, nonce_start, local_hash_count, hash,
                   ret, found, latest_nonce, slotVars, printed, exited, coordVars,
                   monitorVars, hashed, extra, setters, evalVars, encVars, bufVars>>

\* Worker: data.counter.fetch_add(BATCH_SIZE as u64, Relaxed)
H2Add(t) ==
    /\ prog = "h2" /\ ~exited
    /\ pc[t] = "add"
    /\ counter' = counter + BATCH_SIZE
    /\ pc' = [pc EXCEPT ![t] = "check"]
    /\ UNCHANGED <<inputVars, nonce, nonce_start, batch_i, local_hash_count, hash,
                   ret, found, latest_nonce, slotVars, printed, exited, coordVars,
                   monitorVars, hashed, extra, setters, evalVars, encVars, bufVars>>

\* main: `while !mining_data.solution_found.load(Acquire)`; the body only
\* sleeps and prints the statistics.
H2MainPoll ==
    /\ prog = "h2" /\ ~exited
    /\ cpc = "poll"
    /\ cpc' = IF found THEN "join" ELSE "poll"
    /\ UNCHANGED <<inputVars, workerVars, found, counter, latest_nonce, slotVars,
                   printed, exited, join_i, solution, monitorVars, hashed, extra,
                   setters, evalVars, encVars, bufVars>>

\* main: `if let Err(e) = handle.join()` for the next handle.  The join
\* blocks until the worker has ended; an Err (the worker panicked) is written
\* to standard error and the loop goes on.
H2MainJoin ==
    /\ prog = "h2" /\ ~exited
    /\ cpc = "join"
    /\ join_i < num_threads
    /\ pc[join_i] \in {"done", "panicked"}
    /\ join_i' = join_i + 1
    /\ cpc' = IF join_i + 1 = num_threads THEN "exit" ELSE "join"
    /\ UNCHANGED <<inputVars, workerVars, found, counter, latest_nonce, slotVars,
                   printed, exited, solution, monitorVars, hashed, extra, setters,
                   evalVars, encVars, bufVars>>

\* main: println!("Solution found! All threads terminated."); process::exit(0)
H2MainExit ==
    /\ prog = "h2" /\ ~exited
    /\ cpc = "exit"
    /\ exited' = TRUE
    /\ cpc' = "exited"
    /\ UNCHANGED <<inputVars, workerVars, found, counter, latest_nonce, slotVars,
                   printed, join_i, solution, monitorVars, hashed, extra, setters,
                   evalVars, encVars, bufVars>>

\* Worker: a println! of the solution fails (standard output cannot be
\* written): the thread panics before it stores the flag.
H2PrintPanic(t) ==
    /\ prog = "h2" /\ ~exited
    /\ pc[t] = "print"
    /\ pc' = [pc EXCEPT ![t] = "panicked"]
    /\ UNCHANGED <<inputVars, nonce, nonce_start, batch_i, local_hash_count, hash,
                   ret, found, counter, latest_nonce, slotVars, printed, exited,
                   coordVars, monitorVars, hashed, extra, setters, evalVars, encVars, bufVars>>

NextH2 ==
    \/ \E t \in Workers :
        \/ H2Check(t)
        \/ H2Hash(t)
        \/ H2Print(t)
        \/ H2Store(t)
        \/ H2Add(t)
    \/ H2MainPoll
    \/ H2MainJoin
    \/ H2MainExit

InitH2 == InitFor({"h2"}, {D0, D9}, {0}, {<<>>}, {ZeroHash})

\* 2_main.rs on machines of 1 to NumThreads cores.
SpecDescend ==
    /\ InitWith({"h2"}, {D0, D9}, {0}, {<<>>}, {ZeroHash}, 1..NumThreads)
    /\ [][NextH2]_vars

\* 2_main.rs and 4_main.rs: the programs that stop through the found flag.
SpecFlag ==
    /\ InitH2 \/ InitB4
    /\ [][NextH2 \/ NextB4]_vars

\* ------------------------------------------------------------- 5_main.rs
\* Worker: `while !found.load(Relaxed)`
P5Check(t) ==
    /\ prog = "p5"
    /\ pc[t] = "check"
    /\ pc' = [pc EXCEPT ![t] = IF found THEN "done" ELSE "hash"]
    /\ UNCHANGED <<inputVars, nonce, nonce_start, batch_i, local_hash_count, hash,
                   ret, found, counter, latest_nonce, slotVars, printed, exited,
                   coordVars, monitorVars, hashed, extra, setters, evalVars, encVars, bufVars>>

\* Worker: hash input and nonce, test hash.starts_with(&prefix); on a miss
\* advance the nonce by num_threads and take a fresh hasher.
P5Hash(t) ==
    /\ prog = "p5"
    /\ pc[t] = "hash"
    /\ nonce[t] <= MaxNonce
    /\ LET h == H[nonce[t]] IN
        /\ hash' = [hash EXCEPT ![t] = h]
        /\ hashed' = [hashed EXCEPT ![t] = Append(@, nonce[t])]
        /\ extra' = [extra EXCEPT ![t] = IF found THEN @ + 1 ELSE @]
        /\ IF starts_with(h, prefix)
           THEN /\ pc' = [pc EXCEPT ![t] = "swap"]
                /\ nonce' = nonce
           ELSE /\ nonce' = [nonce EXCEPT ![t] = @ + num_threads]
                /\ pc' = [pc EXCEPT ![t] = "check"]
    /\ preimage' = [preimage EXCEPT ![t] =
                        input \o to_le_bytes(U64(0, 0, 0, nonce[t]))]
    /\ UNCHANGED <<inputVars, nonce_start, batch_i, local_hash_count, ret, found,
                   counter, latest_nonce, slotVars, printed, exited, coordVars,
                   monitorVars, setters, evalVars, encVars, buffer, final_data>>

\* A mutation of P5Publishes: the value the swap returned is ignored.
P5Publishes_Always(old) == TRUE

\* Worker: the test `!found.swap(true, Relaxed)` on the value old the swap
\* returned.
P5Publishes(old) == ~old

\* A mutation of P5Swap: the flag is flipped instead of set.
P5Swap_Flips(t) ==
    /\ prog = "p5"
    /\ pc[t] = "swap"
    /\ found' = ~found
    /\ setters' = IF found THEN setters ELSE Append(setters, t)
    /\ pc' = [pc EXCEPT ![t] = IF P5Publishes(found) THEN "store_nonce" ELSE "done"]
    /\ UNCHANGED <<inputVars, nonce, nonce_start, batch_i, local_hash_count, hash,
                   ret, counter, latest_nonce, slotVars, printed, exited,
                   coordVars, monitorVars, hashed, extra, evalVars, encVars, bufVars>>

\* Worker: `if !found.swap(true, Relaxed)`; the worker that read false goes
\* on to publish, any other breaks out of the loop.
P5Swap(t) ==
    /\ prog = "p5"
    /\ pc[t] = "swap"
    /\ found' = TRUE
    /\ setters' = IF found THEN setters ELSE Append(setters, t)
    /\ pc' = [pc EXCEPT ![t] = IF P5Publishes(found) THEN "store_nonce" ELSE "done"]
    /\ UNCHANGED <<inputVars, nonce, nonce_start, batch_i, local_hash_count, hash,
                   ret, counter, latest_nonce, slotVars, printed, exited,
                   coordVars, monitorVars, hashed, extra, evalVars, encVars, bufVars>>

\* Worker: result_nonce.store(nonce, Relaxed)
P5StoreNonce(t) ==
    /\ prog = "p5"
    /\ pc[t] = "store_nonce"
    /\ result_nonce' = nonce[t]
    /\ slot_writes' = Append(slot_writes, <<t, "nonce">>)
    /\ pc' = [pc EXCEPT ![t] = "write_hash"]
    /\ UNCHANGED <<inputVars, nonce, nonce_start, batch_i, local_hash_count, hash,
                   ret, found, counter, latest_nonce, result_hash, printed,
                   exited, coordVars, monitorVars, hashed, extra, setters,
                   evalVars, encVars, bufVars>>

\* Worker: *result_hash.write() = hash.to_vec(); break
P5WriteHash(t) ==
    /\ prog = "p5"
    /\ pc[t] = "write_hash"
    /\ result_hash' = hash[t]
    /\ slot_writes' = Append(slot_writes, <<t, "hash">>)
    /\ pc' = [pc EXCEPT ![t] = "done"]
    /\ UNCHANGED <<inputVars, nonce, nonce_start, batch_i, local_hash_count, hash,
                   ret, found, counter, latest_nonce, result_nonce, printed,
                   exited, coordVars, monitorVars, hashed, extra, setters,
                   evalVars, encVars, bufVars>>

\* Coordinator: thread.join().unwrap() for the next handle.
P5Join ==
    /\ prog = "p5"
    /\ cpc = "join"
    /\ join_i < num_threads
    /\ pc[join_i] = "done"
    /\ join_i' = join_i + 1
    /\ cpc' = IF join_i + 1 = num_threads THEN "result" ELSE "join"
    /\ UNCHANGED <<inputVars, workerVars, found, counter, latest_nonce, slotVars,
                   printed, exited, solution, monitorVars, hashed, extra, setters,
                   evalVars, encVars, bufVars>>

\* Coordinator: Some((result_nonce, result_hash)) if found is set, else None.
P5Return ==
    /\ prog = "p5"
    /\ cpc = "result"
    /\ solution' = IF found THEN <<result_nonce, result_hash>> ELSE None
    /\ cpc' = "returned"
    /\ UNCHANGED <<inputVars, workerVars, found, counter, latest_nonce, slotVars,
                   printed, exited, join_i, monitorVars, hashed, extra, setters,
                   evalVars, encVars, bufVars>>

NextP5 ==
    \/ \E t \in Workers :
        \/ P5Check(t)
        \/ P5Hash(t)
        \/ P5Swap(t)
        \/ P5StoreNonce(t)
        \/ P5WriteHash(t)
    \/ P5Join
    \/ P5Return

InitP5 == InitFor({"p5"}, {D0, D9}, {0}, {<<0, 0, 0, 0>>, <<>>}, {ZeroHash})

SpecP5 == InitP5 /\ [][NextP5]_vars

\* 5_main.rs, 3_main.rs and 4_main.rs: the searches that return a pair.
SpecPair ==
    /\ InitP5 \/ InitB3 \/ InitB4Stepped
    /\ [][NextP5 \/ NextB3 \/ NextB4]_vars

\* ------------------------------------------------------------- 1_main.rs
\* Here nonce_start is the `nonce` of mine_parallel (the start of the range
\* handed to mine_nonce) and nonce is the loop variable of mine_nonce.

\* Worker: `while !found.load(Relaxed)`, then the call of mine_nonce.
P1Check(t) ==
    /\ prog = "p1"
    /\ pc[t] = "check"
    /\ IF found
       THEN /\ pc' = [pc EXCEPT ![t] = "done"]
            /\ ret' = [ret EXCEPT ![t] = None]
            /\ nonce' = nonce
       ELSE /\ pc' = [pc EXCEPT ![t] = "scan"]
            /\ ret' = ret
            /\ nonce' = [nonce EXCEPT ![t] = nonce_start[t]]
    /\ UNCHANGED <<inputVars, nonce_start, batch_i, local_hash_count, hash, found,
                   counter, latest_nonce, slotVars, printed, exited, coordVars,
                   monitorVars, hashed, extra, setters, evalVars, encVars, bufVars>>

\* Worker: one iteration of `for nonce in start_nonce..end_nonce` of
\* mine_nonce; when the range is exhausted mine_nonce returns None and
\* mine_parallel advances its nonce by THREAD_COUNT * BATCH_SIZE.
P1Scan(t) ==
    /\ prog = "p1"
    /\ pc[t] = "scan"
    /\ nonce[t] <= MaxNonce
    /\ LET h == H[nonce[t]] IN
        /\ hash' = [hash EXCEPT ![t] = h]
        /\ hashed' = [hashed EXCEPT ![t] = Append(@, nonce[t])]
        /\ extra' = [extra EXCEPT ![t] = IF found THEN @ + 1 ELSE @]
        /\ IF mine_nonce_accepts(h)
           THEN /\ pc' = [pc EXCEPT ![t] = "store"]
                /\ UNCHANGED <<nonce, nonce_start, final_data>>
           ELSE IF nonce[t] + 1 = nonce_start[t] + BATCH_SIZE
           THEN /\ pc' = [pc EXCEPT ![t] = "check"]
                /\ nonce_start' = [nonce_start EXCEPT ![t] = @ + num_threads * BATCH_SIZE]
                /\ nonce' = [nonce EXCEPT ![t] = @ + 1]
           ELSE /\ pc' = pc
                /\ nonce_start' = nonce_start
                /\ nonce' = [nonce EXCEPT ![t] = @ + 1]
    /\ UNCHANGED <<inputVars, batch_i, local_hash_count, ret, found, counter,
                   latest_nonce, slotVars, printed, exited, coordVars,
                   monitorVars, setters, evalVars, encVars, bufVars>>

\* Worker: found.store(true, Relaxed); return Some(result)
P1Store(t) ==
    /\ prog = "p1"
    /\ pc[t] = "store"
    /\ found' = TRUE
    /\ setters' = Append(setters, t)
    /\ ret' = [ret EXCEPT ![t] = <<nonce[t], hash[t]>>]
    /\ pc' = [pc EXCEPT ![t] = "done"]
    /\ UNCHANGED <<inputVars, nonce, nonce_start, batch_i, local_hash_count, hash,
                   counter, latest_nonce, slotVars, printed, exited, coordVars,
                   monitorVars, hashed, extra, evalVars, encVars, bufVars>>

\* Coordinator: `if let Some(result) = handle.join().unwrap() { return result }`
\* for the next handle; unreachable!() after the last.
P1Join ==
    /\ prog = "p1"
    /\ cpc = "join"
    /\ join_i < num_threads
    /\ pc[join_i] = "done"
    /\ IF ret[join_i] # None
       THEN /\ solution' = ret[join_i]
            /\ cpc' = "returned"
            /\ join_i' = join_i
       ELSE /\ solution' = solution
            /\ join_i' = join_i + 1
            /\ cpc' = IF join_i + 1 = num_threads THEN "panic" ELSE "join"
    /\ UNCHANGED <<inputVars, workerVars, found, counter, latest_nonce, slotVars,
                   printed, exited, monitorVars, hashed, extra, setters, evalVars, encVars, bufVars>>

NextP1 ==
    \/ \E t \in Workers :
        \/ P1Check(t)
        \/ P1Scan(t)
        \/ P1Store(t)
    \/ P1Join

InitP1 == InitFor({"p1"}, {D0, D9}, {0}, {<<>>}, {ZeroHash})

SpecP1 == InitP1 /\ [][NextP1]_vars

\* main.rs and 8_main.rs: the programs that publish by printing and exiting.
NextPrint == NextCli \/ NextS8
SpecPrint ==
    /\ \/ InitFor({"cli"}, {D0, D9}, {0, 9}, {<<>>}, {ZeroHash})
       \/ InitFor({"s8"}, {D0, D9}, {0, 9}, {<<>>}, {ZeroHash})
    /\ [][NextPrint]_vars

\* 3_main.rs and main.rs on a machine of one core.
SpecSingle ==
    /\ InitWith({"b3", "cli"}, {D0, D9}, {0, 9}, {<<>>}, {ZeroHash}, {1})
    /\ [][NextB3 \/ NextCli]_vars

\* main.rs for well-formed and malformed values of --prev-hash.
SpecHexArgs ==
    /\ InitArgs({"cli"}, {D0, D9}, {0, 9}, {<<>>}, {ZeroHash}, {NumThreads}, HexArgs)
    /\ [][NextCli]_vars

\* main.rs and 8_main.rs asked for 64 zero nibbles (and for none), over
\* digests that are nearly and wholly zero.
SpecHard ==
    /\ \/ InitFor({"cli"}, {D0, D40}, {0, 64}, {<<>>}, {ZeroHash})
       \/ InitFor({"s8"}, {D40, ZeroHash}, {0, 64}, {<<>>}, {ZeroHash})
    /\ [][NextPrint]_vars

\* 4_main.rs and main.rs over oracles some of which hold no qualifying digest.
InitEndless ==
    /\ \/ InitB4
       \/ InitFor({"cli"}, {D0, D9}, {0, 9}, {<<>>}, {ZeroHash})
    /\ \E k \in 0..(MaxNonce + 1) : FromNonceOn(k)
SpecEndless == InitEndless /\ [][NextB4 \/ NextCli]_vars

\* 2_main.rs and 8_main.rs where a worker's println! may fail.
SpecWorkerFault ==
    /\ \/ InitH2
       \/ InitFor({"s8"}, {D0, D9}, {0, 9}, {<<>>}, {ZeroHash})
    /\ [][\/ NextH2
          \/ NextS8
          \/ \E t \in Workers : H2PrintPanic(t) \/ S8PrintPanic(t)
          \/ S8MainJoin]_vars

\* ------------------------------------------- BlockData::new on its own
\* BlockData::new(index, message, prev_hash, miner)
BlockData_new ==
    /\ prog = "enc"
    /\ combined_data = <<>>
    /\ nonce_position' = BlockDataOf(block_args).nonce_position
    /\ combined_data' = BlockDataOf(block_args).combined_data
    /\ UNCHANGED <<inputVars, workerVars, found, counter, latest_nonce, slotVars,
                   printed, exited, coordVars, monitorVars, hashed, extra,
                   setters, evalVars, bufVars>>

SpecEncode ==
    /\ InitAll({"enc"}, {D0}, {0}, {<<>>}, {ZeroHash}, {NumThreads}, {ValidArg},
               BlockArgs)
    /\ [][BlockData_new]_vars

\* ------------------------- the monitor of 4_main.rs on a synthetic counter
\* One sampling interval in which the counter rises by the fixed step: the
\* loop test finds the flag unset, the thread sleeps, and the cycle runs on
\* the counter it reads.
SmoothInterval ==
    /\ prog = "smooth"
    /\ samples < MaxCycles
    /\ counter' = counter + synth_step
    /\ LET sample == M4Sample(counter + synth_step) IN
        /\ rates' = sample.rates
        /\ avg_rate' = sample.avg_rate
        /\ last_count' = sample.last_count
    /\ samples' = samples + 1
    /\ UNCHANGED <<inputVars, workerVars, found, latest_nonce, slotVars, printed,
                   exited, coordVars, mpc, late_reports, hashed, extra,
                   setters, evalVars, encVars, bufVars>>

SpecSmooth ==
    /\ /\ InitCore({"smooth"}, {D0}, {0}, {<<>>}, {ZeroHash}, {NumThreads},
                   {ValidArg}, {KaleArgs})
       /\ synth_step \in 0..MaxStep
    /\ [][SmoothInterval]_vars

\* One sampling interval in which the counter rises by any of two amounts.
WindowInterval ==
    /\ prog = "window"
    /\ samples < MaxCycles
    /\ \E d \in {0, synth_step} :
        /\ counter' = counter + d
        /\ LET sample == M4Sample(counter + d) IN
            /\ rates' = sample.rates
            /\ avg_rate' = sample.avg_rate
            /\ last_count' = sample.last_count
    /\ samples' = samples + 1
    /\ UNCHANGED <<inputVars, workerVars, found, latest_nonce, slotVars, printed,
                   exited, coordVars, mpc, late_reports, hashed, extra,
                   setters, evalVars, encVars, bufVars>>

SpecWindow ==
    /\ /\ InitCore({"window"}, {D0}, {0}, {<<>>}, {ZeroHash}, {NumThreads},
                   {ValidArg}, {KaleArgs})
       /\ synth_step = MaxStep
    /\ [][WindowInterval]_vars

\* 1_main.rs and 2_main.rs, the programs of fixed difficulty, over digests
\* of 0, 5 and 9 leading zero nibbles.
SpecFixed ==
    /\ \/ InitFor({"p1"}, {D0, D5, D9}, {0}, {<<>>}, {ZeroHash})
       \/ InitFor({"h2"}, {D0, D5, D9}, {0}, {<<>>}, {ZeroHash})
    /\ [][NextP1 \/ NextH2]_vars

\* 3_main.rs and main.rs: the programs whose workers write the nonce into a
\* buffer built beforehand.
SpecFrame ==
    /\ \/ InitB3
       \/ InitFor({"cli"}, {D0, D9}, {0, 9}, {<<>>}, {ZeroHash})
    /\ [][NextB3 \/ NextCli]_vars

\* ------------------------------------------------------------- 0_main.rs
\* Worker: `while !found.load(Relaxed)`; None after the loop.
M0Check(t) ==
    /\ prog = "m0"
    /\ pc[t] = "check"
    /\ IF found
       THEN /\ pc' = [pc EXCEPT ![t] = "done"]
            /\ ret' = [ret EXCEPT ![t] = None]
       ELSE /\ pc' = [pc EXCEPT ![t] = "hash"]
            /\ ret' = ret
    /\ UNCHANGED <<inputVars, nonce, nonce_start, batch_i, local_hash_count, hash,
                   found, counter, latest_nonce, slotVars, printed, exited,
                   coordVars, monitorVars, hashed, extra, setters, evalVars,
                   encVars, bufVars>>

\* Worker: hash static_prefix, the bytes of the nonce and static_suffix, test
\* the digest (check_difficulty writes its debug lines on a hit); on a miss
\* advance the nonce by num_threads.
M0Hash(t) ==
    /\ prog = "m0"
    /\ pc[t] = "hash"
    /\ nonce[t] <= MaxNonce
    /\ preimage' = [preimage EXCEPT ![t] =
                        static_prefix(block_args) \o NonceBytes(nonce[t])
                            \o static_suffix(block_args)]
    /\ LET h == H[nonce[t]] IN
        /\ hash' = [hash EXCEPT ![t] = h]
        /\ hashed' = [hashed EXCEPT ![t] = Append(@, nonce[t])]
        /\ extra' = [extra EXCEPT ![t] = IF found THEN @ + 1 ELSE @]
        /\ IF check_difficulty_0(h)
           THEN /\ pc' = [pc EXCEPT ![t] = "store"]
                /\ printed' = Append(printed, <<t, nonce[t], h>>)
                /\ UNCHANGED <<nonce, local_hash_count>>
           ELSE /\ nonce' = [nonce EXCEPT ![t] = @ + num_threads]
                /\ local_hash_count' = [local_hash_count EXCEPT ![t] = @ + 1]
                /\ pc' = [pc EXCEPT ![t] =
                            IF local_hash_count[t] + 1 >= BATCH_SIZE
                            THEN "stats" ELSE "check"]
                /\ printed' = printed
    /\ UNCHANGED <<inputVars, nonce_start, batch_i, ret, found, counter,
                   latest_nonce, slotVars, exited, coordVars, monitorVars,
                   setters, evalVars, encVars, buffer, final_data>>

\* A mutation of M0Store: the worker that sets the flag returns None.
M0Store_ReturnsNone(t) ==
    /\ prog = "m0"
    /\ pc[t] = "store"
    /\ found' = TRUE
    /\ setters' = Append(setters, t)
    /\ ret' = [ret EXCEPT ![t] = None]
    /\ pc' = [pc EXCEPT ![t] = "done"]
    /\ UNCHANGED <<inputVars, nonce, nonce_start, batch_i, local_hash_count, hash,
                   counter, latest_nonce, slotVars, printed, exited, coordVars,
                   monitorVars, hashed, extra, evalVars, encVars, bufVars>>

\* Worker: found.store(true, Relaxed); return Some(nonce)
M0Store(t) ==
    /\ prog = "m0"
    /\ pc[t] = "store"
    /\ found' = TRUE
    /\ setters' = Append(setters, t)
    /\ ret' = [ret EXCEPT ![t] = <<nonce[t]>>]
    /\ pc' = [pc EXCEPT ![t] = "done"]
    /\ UNCHANGED <<inputVars, nonce, nonce_start, batch_i, local_hash_count, hash,
                   counter, latest_nonce, slotVars, printed, exited, coordVars,
                   monitorVars, hashed, extra, evalVars, encVars, bufVars>>

\* Worker, under the stats lock: update_hash_count(local_hash_count), then
\* print_stats, which takes the counter as last_hash_count when
\* STATS_INTERVAL has passed; local_hash_count = 0.
M0Stats(t) ==
    /\ prog = "m0"
    /\ pc[t] = "stats"
    /\ counter' = counter + local_hash_count[t]
    /\ \E due \in BOOLEAN :
        last_count' = IF due THEN counter' ELSE last_count
    /\ local_hash_count' = [local_hash_count EXCEPT ![t] = 0]
    /\ pc' = [pc EXCEPT ![t] = "check"]
    /\ UNCHANGED <<inputVars, nonce, nonce_start, batch_i, hash, ret, found,
                   latest_nonce, slotVars, printed, exited, coordVars, mpc,
                   rates, avg_rate, samples, late_reports, hashed, extra,
                   setters, evalVars, encVars, bufVars>>

\* Coordinator: one step of find_map(|h| h.join().unwrap()), followed by
\* .expect("Solution should be found").
M0Join ==
    /\ prog = "m0"
    /\ cpc = "join"
    /\ join_i < num_threads
    /\ pc[join_i] = "done"
    /\ IF ret[join_i] # None
       THEN /\ solution' = ret[join_i]
            /\ cpc' = "final"
            /\ join_i' = join_i
       ELSE /\ solution' = solution
            /\ join_i' = join_i + 1
            /\ cpc' = IF join_i + 1 = num_threads THEN "panic" ELSE "join"
    /\ UNCHANGED <<inputVars, workerVars, found, counter, latest_nonce, slotVars,
                   printed, exited, monitorVars, hashed, extra, setters,
                   evalVars, encVars, bufVars>>

\* Coordinator, under the stats lock: print_final_stats(solution); return
\* solution.
M0Return ==
    /\ prog = "m0"
    /\ cpc = "final"
    /\ cpc' = "returned"
    /\ UNCHANGED <<inputVars, workerVars, found, counter, latest_nonce, slotVars,
                   printed, exited, join_i, solution, monitorVars, hashed,
                   extra, setters, evalVars, encVars, bufVars>>

NextM0 ==
    \/ \E t \in Workers :
        \/ M0Check(t)
        \/ M0Hash(t)
        \/ M0Store(t)
        \/ M0Stats(t)
    \/ M0Join
    \/ M0Return

InitM0 ==
    InitAll({"m0"}, {D0, D9}, {0}, {<<>>}, {ZeroHash}, {NumThreads},
            {ValidArg}, {KaleArgs_0})

\* 0_main.rs, 1_main.rs and 5_main.rs: the coordinators with a branch for a
\* search that ended without a result.
SpecExpect ==
    /\ InitM0 \/ InitP1 \/ InitP5
    /\ [][NextM0 \/ NextP1 \/ NextP5]_vars

\* 4_main.rs, 5_main.rs and 2_main.rs: the programs whose workers stop one
\* another through a shared flag.
SpecFound ==
    /\ InitB4Stepped \/ InitP5 \/ InitH2
    /\ [][NextB4 \/ NextP5 \/ NextH2]_vars

\* ================================================================ claims
Range(f) == {f[i] : i \in DOMAIN f}

\* Nibble k (1-based, 1..64) of a digest.
Nibble(h, k) ==
    IF k % 2 = 1 THEN h[(k + 1) \div 2] \div 16 ELSE h[k \div 2] % 16

\* The reference count: scan the 64 nibbles of the digest one by one and
\* stop at the first that is not zero.
RECURSIVE NaiveFrom(_, _)
NaiveFrom(h, k) ==
    IF k > 64 THEN 0
    ELSE IF Nibble(h, k) # 0 THEN 0
    ELSE 1 + NaiveFrom(h, k + 1)
NaiveCount(h) == NaiveFrom(h, 1)

\* A worker of main.rs / 8_main.rs has declared a match.
Declared(t) == pc[t] \in {"print", "count", "exit", "exited"}

\* C1: in main.rs no nonce is ever hashed by two different workers: the sets
\* of nonces hashed by the workers are pairwise disjoint.
C1_NoNonceHashedTwice ==
    prog = "cli" =>
        \A t1 \in Workers : \A t2 \in Workers :
            t1 # t2 => Range(hashed[t1]) \cap Range(hashed[t2]) = {}

\* C4: in main.rs a worker that has hashed a nonce declares a match exactly
\* when the leading-zero-nibble count of the digest is >= target_zeros.
C4_MatchIffAtLeastTarget ==
    prog = "cli" =>
        \A t \in Workers :
            hashed[t] # <<>> =>
                (Declared(t) <=> count_leading_hex_zeros(hash[t]) >= target_zeros)

\* C5: count_leading_hex_zeros returns the naive nibble-by-nibble count of
\* leading zero nibbles over the full 32-byte digest.
C5_CountEqualsNaive ==
    ev_done => ev_count = NaiveCount(ev_hash)

\* The nonces hashed by any worker so far.
AllHashed == UNION {Range(hashed[t]) : t \in Threads}

\* C2: in mine_parallel (1_main.rs) no nonce is scanned by two workers, and
\* there are no gaps: once every worker has moved on from its first range
\* without a match, every nonce below THREAD_COUNT * BATCH_SIZE has been
\* scanned.
C2_NoGapsNoDuplicates ==
    prog = "p1" =>
        /\ \A t1 \in Workers : \A t2 \in Workers :
            t1 # t2 => Range(hashed[t1]) \cap Range(hashed[t2]) = {}
        /\ (\A t \in Workers : nonce_start[t] >= num_threads * BATCH_SIZE) =>
            \A n \in Nonces : n < num_threads * BATCH_SIZE => n \in AllHashed

\* C3: in 4_main.rs and 8_main.rs the k-th nonce hashed by worker t
\* (k = 0, 1, ...) is t + k * stride, stride being the number of workers.
C3_KthNonceOnStride ==
    prog \in {"b4", "s8"} =>
        \A t \in Workers : \A k \in 1..Len(hashed[t]) :
            hashed[t][k] = t + (k - 1) * num_threads

\* C3 happens: a worker other than the first has hashed two nonces or more.
C3_Witness ==
    /\ prog = "b4"
    /\ \E t \in Workers : t >= 1 /\ Len(hashed[t]) >= 2

\* C6: in find_nonce_with_prefix (5_main.rs) the result slot is written at
\* most once (one write of result_nonce, one of result_hash), and only by the
\* worker whose swap read false.
C6_SlotWrittenOnceByWinner ==
    prog = "p5" =>
        /\ \A i \in 1..Len(slot_writes) :
            setters # <<>> /\ slot_writes[i][1] = Head(setters)
        /\ \A i \in 1..Len(slot_writes) : \A j \in 1..Len(slot_writes) :
            slot_writes[i][2] = slot_writes[j][2] => i = j
        /\ Len(setters) <= 1

\* C6 happens: the winner has written both fields and another worker that
\* found a qualifying digest has left its loop without writing.
C6_Witness ==
    /\ prog = "p5"
    /\ Len(slot_writes) = 2
    /\ \E t \in Workers :
        /\ t # Head(setters)
        /\ pc[t] = "done"
        /\ hashed[t] # <<>>
        /\ starts_with(hash[t], prefix)

\* C7: in main.rs and 8_main.rs at most one worker prints a result line
\* before the process ends.
C7_AtMostOneResultLine ==
    prog \in {"cli", "s8"} => Len(printed) <= 1

\* C8: the (nonce, digest) mine_block of 4_main.rs returns is the one found
\* by the worker that first set the found flag.
C8_ReturnsFirstSetter ==
    (prog = "b4" /\ cpc = "returned") => solution = ret[Head(setters)]

\* C9: whenever mine_block (3_main.rs, 4_main.rs) has returned, every worker
\* thread has terminated.
C9_AllWorkersJoined ==
    (prog \in {"b3", "b4"} /\ cpc = "returned") =>
        \A t \in Workers : pc[t] = "done"

\* C10: in 2_main.rs and 4_main.rs a worker computes at most BATCH_SIZE
\* hashes while the found flag is set.
C10_AtMostOneBatchAfterFound ==
    prog \in {"h2", "b4"} => \A t \in Workers : extra[t] <= BATCH_SIZE

\* C10 happens: a worker of 2_main.rs has computed a whole batch after
\* another worker set the flag, and has then left its loop.
C10_Witness ==
    /\ prog = "h2"
    /\ \E t \in Workers :
        /\ extra[t] = BATCH_SIZE
        /\ pc[t] = "done"
        /\ setters # <<>> /\ Head(setters) # t

\* The result of a naive sequential scan 0, 1, 2, ... of the nonces in S that
\* pass the acceptance test: the smallest of them, -1 if there is none.
FirstOf(S) == IF S = {} THEN -1 ELSE CHOOSE n \in S : \A m \in S : n <= m
QualifyingB3 == {n \in Nonces : check_difficulty(H[n])}
QualifyingCli == {n \in Nonces : CliMatch(H[n], target_zeros)}

HexDigits ==
    {"0", "1", "2", "3", "4", "5", "6", "7", "8", "9",
     "a", "b", "c", "d", "e", "f", "A", "B", "C", "D", "E", "F"}

\* The string is valid hex and stands for exactly 32 bytes.
ValidHex32(str) == Len(str) = 64 /\ \A i \in 1..Len(str) : str[i] \in HexDigits

\* C19: in main.rs, when prev_hash is not valid hex or does not decode to
\* exactly 32 bytes, no worker and no monitor thread is ever started and no
\* hash is computed.
C19_BadPrevHashStartsNothing ==
    (prog = "cli" /\ ~ValidHex32(prev_hash_arg)) =>
        /\ \A t \in Threads : pc[t] = "unspawned" /\ hashed[t] = <<>>
        /\ mpc = "none"
        /\ counter = 0

\* C19 happens: main has met a malformed prev_hash and failed.
C19_Witness ==
    /\ prog = "cli"
    /\ ~ValidHex32(prev_hash_arg)
    /\ cpc = "panicked"

\* C12: in main.rs with target_zeros = 0, the first nonce worker 0 tries is
\* accepted whatever its digest is, and no worker hashes more than one nonce.
C12_TargetZeroAcceptsFirstNonce ==
    (prog = "cli" /\ target_zeros = 0) =>
        /\ (hashed[0] # <<>> => Declared(0) /\ hashed[0] = <<0>>)
        /\ \A t \in Workers : Len(hashed[t]) <= 1

\* C13: with target_zeros = 64, main.rs and 8_main.rs never declare a match
\* for a digest that is not all zero: no worker leaves its loop on such a
\* digest, no line is printed for one, and the process does not exit on one.
C13_Target64NoFalseMatch ==
    (prog \in {"cli", "s8"} /\ target_zeros = 64) =>
        /\ \A t \in Workers : Declared(t) => hash[t] = ZeroHash
        /\ \A i \in 1..Len(printed) : printed[i][3] = ZeroHash
        /\ exited => \E t \in Workers : Declared(t) /\ hash[t] = ZeroHash

\* C13 happens: with target 64 a worker has hashed a digest of 40 leading
\* zero nibbles and stays in its loop.
C13_Witness ==
    /\ prog \in {"cli", "s8"}
    /\ target_zeros = 64
    /\ \E t \in Workers :
        /\ hashed[t] # <<>>
        /\ hash[t] = D40
        /\ pc[t] = "hash"

\* C14: when no nonce yields a qualifying digest the search goes on: in
\* 4_main.rs the flag stays false, no worker leaves its loop and the
\* coordinator stays at its first join; in main.rs no worker declares a
\* match, nothing is printed and the process does not exit.
C14_NoMatchNoEnd ==
    /\ (prog = "b4" /\ QualifyingB3 = {}) =>
        /\ ~found
        /\ \A t \in Workers : pc[t] # "done" /\ ret[t] = None
        /\ cpc = "join" /\ join_i = 0 /\ solution = None
    /\ (prog = "cli" /\ QualifyingCli = {}) =>
        /\ \A t \in Workers : ~Declared(t)
        /\ printed = <<>>
        /\ ~exited
        /\ cpc \in {"parse", "join"}

\* C14 happens: no nonce qualifies and the workers have hashed every nonce of
\* the model.
C14_Witness ==
    /\ \/ prog = "b4" /\ QualifyingB3 = {}
       \/ prog = "cli" /\ QualifyingCli = {}
    /\ AllHashed = Nonces

\* C15: the monitor of mine_block (4_main.rs) only observes: a step that
\* changes the monitor's own variables leaves the found flag, the hash
\* counter, the latest-nonce cell, every worker's state and result, and the
\* coordinator's state unchanged.
C15_MonitorOnlyObserves ==
    [][(prog = "b4" /\ monitorVars' # monitorVars) =>
            UNCHANGED <<found, counter, latest_nonce, workerVars, coordVars,
                        slotVars>>]_vars

\* C15 happens: the monitor has reported after reading a counter that the
\* workers had raised.
C15_Witness ==
    /\ prog = "b4"
    /\ samples >= 1
    /\ last_count > 0

\* The monitor thread has ended.
MonitorEnded == mpc \in {"done", "panicked"}

\* C16: in mine_block (4_main.rs) the monitor begins at most one cycle after
\* the found flag is set, mine_block has not returned unless the monitor has
\* ended and been joined, and once the flag is set the monitor eventually
\* ends.
C16_MonitorTiedToFound ==
    /\ [](prog = "b4" => late_reports <= 1)
    /\ []((prog = "b4" /\ cpc = "returned") => mpc = "done")
    /\ ((prog = "b4" /\ found) ~> MonitorEnded)

\* C16 happens: mine_block has returned after the monitor made one more
\* cycle with the flag set.
C16_Witness ==
    /\ prog = "b4"
    /\ cpc = "returned"
    /\ late_reports = 1

\* C17: in mine_block (4_main.rs), when a worker has found a qualifying nonce
\* and the monitor thread has panicked, the coordinator does not fail: it
\* does not end in a panic of its own.
C17_MonitorCrashHarmless ==
    (prog = "b4" /\ found /\ mpc = "panicked") => cpc # "panic"

\* C18: after a worker thread has panicked, the coordinator of 2_main.rs does
\* not report success and the coordinator of 8_main.rs does not return
\* normally without a result.
C18_WorkerFailureSurfaced ==
    (\E t \in Workers : pc[t] = "panicked") =>
        /\ prog = "h2" => cpc \notin {"exit", "exited"}
        /\ prog = "s8" => cpc # "returned"

\* The big-endian value of the 4 bytes after offset off.
TagAt(data, off) ==
    ((data[off + 1] * 256 + data[off + 2]) * 256 + data[off + 3]) * 256
        + data[off + 4]

\* u64::from_be_bytes, as limbs.
FromBeBytes(b) == [i \in 1..4 |-> 256 * b[2 * i - 1] + b[2 * i]]

\* The length the template declares for its message field.
DeclaredMessageLen == TagAt(combined_data, 16)

\* The offset at which the field after the message starts, by the tags.
AfterMessage == 20 + DeclaredMessageLen

\* C20: the template built by BlockData::new declares for the message a
\* length tag equal to the message's byte length, and parsing the template by
\* its tags gives back the index, the message bytes and the prev_hash bytes.
C20_TagsRoundTrip ==
    (prog = "enc" /\ combined_data # <<>>) =>
        /\ DeclaredMessageLen = Len(block_args.message)
        /\ FromBeBytes(SubSeq(combined_data, 5, 12)) = block_args.index
        /\ SubSeq(combined_data, 21, AfterMessage) = block_args.message
        /\ TagAt(combined_data, AfterMessage) = 13
        /\ TagAt(combined_data, AfterMessage + 4) = 32
        /\ SubSeq(combined_data, AfterMessage + 9, AfterMessage + 40)
                = block_args.prev_hash

RECURSIVE SumUpTo(_, _)
SumUpTo(q, n) == IF n = 0 THEN 0 ELSE q[n] + SumUpTo(q, n - 1)

\* C27: in the monitor of 4_main.rs, at every cycle the window holds at most
\* MAX_RATES_BUFFER samples when the mean is computed, the new sample is its
\* last element, a window that was full has lost its oldest sample and no
\* other, and the mean reported is the sum of the window over its length.
C27_WindowBoundedOldestOut ==
    [][(prog = "window" /\ samples' # samples) =>
        LET n == Len(rates) IN
        /\ Len(rates') <= MAX_RATES_BUFFER
        /\ rates'[Len(rates')] = counter' - last_count
        /\ n < MAX_RATES_BUFFER =>
            Len(rates') = n + 1 /\ SubSeq(rates', 1, n) = rates
        /\ n = MAX_RATES_BUFFER =>
            Len(rates') = n /\ SubSeq(rates', 1, n - 1) = Tail(rates)
        /\ avg_rate' = <<SumUpTo(rates', Len(rates')), Len(rates')>>]_vars

\* C27 happens: the window has been full, has dropped samples, and holds two
\* different rates.
C27_Witness ==
    /\ prog = "window"
    /\ samples > MAX_RATES_BUFFER + 1
    /\ rates[1] # rates[2]
    /\ rates[MAX_RATES_BUFFER] # rates[1]

\* The full preimage for a nonce: the prefix built from the inputs, the 8
\* bytes of the nonce, the suffix.
FullPreimage(n) ==
    build_prefix(block_args.index, hex_decode(prev_hash_arg).bytes)
        \o NonceBytes(n) \o build_suffix

\* The nonce worker t hashed last.
LastHashed(t) == hashed[t][Len(hashed[t])]

\* C22: in 7_main.rs the bytes a worker gives to the hash in an iteration are
\* the full preimage: the 68-byte prefix, the 8 bytes of its nonce and the
\* 44-byte suffix.
C22_HashesFullPreimage ==
    prog = "s7" =>
        \A t \in Workers :
            hashed[t] # <<>> =>
                /\ Len(preimage[t]) = 68 + 8 + 44
                /\ preimage[t] = FullPreimage(LastHashed(t))

\* Worker t has accepted the digest it hashed last.
AcceptedFixed(t) ==
    IF prog = "p1" THEN pc[t] = "store" \/ ret[t] # None
    ELSE pc[t] \in {"print", "store"} \/ t \in Range(setters)

\* C23: in 1_main.rs and 2_main.rs a worker accepts the digest it has hashed
\* exactly when the digest has at least DIFFICULTY (resp. LEADING_ZEROS)
\* leading zero nibbles.
C23_AcceptsIffEnoughNibbles ==
    /\ prog = "p1" =>
        \A t \in Workers :
            hashed[t] # <<>> =>
                (AcceptedFixed(t) <=> NaiveCount(hash[t]) >= DIFFICULTY_1)
    /\ prog = "h2" =>
        \A t \in Workers :
            hashed[t] # <<>> =>
                (AcceptedFixed(t) <=> NaiveCount(hash[t]) >= LEADING_ZEROS)

\* The number of hashes the workers have computed so far.
RECURSIVE HashesUpTo(_)
HashesUpTo(n) == IF n = 0 THEN 0 ELSE Len(hashed[n - 1]) + HashesUpTo(n - 1)
TotalHashed == HashesUpTo(num_threads)

\* C24: in main.rs and 4_main.rs the shared hash counter never decreases and
\* never exceeds the number of hashes the workers have computed so far.
C24_CounterMonotoneAndBounded ==
    /\ [](prog \in {"cli", "b4"} => counter <= TotalHashed)
    /\ [][(prog \in {"cli", "b4"}) => (counter' >= counter)]_vars

\* C24 happens: batches have been added and workers have hashed more than
\* the counter says.
C24_Witness ==
    /\ prog \in {"cli", "b4"}
    /\ counter >= 2 * BATCH_SIZE
    /\ counter < TotalHashed

\* The buffer agrees with the template outside the 8 bytes after pos.
SameOutsideSlot(buf, template, pos) ==
    /\ Len(buf) = Len(template)
    /\ \A i \in 1..Len(template) :
        (i <= pos \/ i > pos + 8) => buf[i] = template[i]

\* C25: in 3_main.rs and main.rs a worker's buffer keeps its length, the
\* nonce offset keeps its value, and every byte outside the nonce slot keeps
\* the value the encoder gave it, whatever the worker has hashed.
C25_OnlyNonceSlotChanges ==
    /\ prog = "b3" =>
        /\ nonce_position = BlockDataOf(block_args).nonce_position
        /\ Len(combined_data) = nonce_position + 8 + 44
        /\ \A t \in Workers :
            SameOutsideSlot(buffer[t], BlockDataOf(block_args).combined_data,
                            nonce_position)
    /\ (prog = "cli" /\ cpc = "join") =>
        \A t \in Workers :
            /\ Len(buffer[t]) = 68 + 8 + 44
            /\ SubSeq(buffer[t], 1, 68) =
                    build_prefix(block_args.index, hex_decode(prev_hash_arg).bytes)
            /\ SubSeq(buffer[t], 77, 120) = build_suffix

\* C25 happens: a worker has written its second nonce, and its buffer is no
\* longer the buffer it started with.
C25_Witness ==
    /\ prog \in {"b3", "cli"}
    /\ \E t \in Workers :
        /\ Len(hashed[t]) >= 2
        /\ buffer[t] # StartBuffer("b3", block_args, <<>>)
        /\ buffer[t] # hasher_buffer_of(block_args.index,
                                        hex_decode(prev_hash_arg).bytes)

\* The offset of the nonce in the buffers of the program.
SlotOf == IF prog = "cli" THEN 68 ELSE nonce_position

\* C26: in main.rs and 4_main.rs, in every state the nonce slot of a worker's
\* buffer, and of the bytes it hashed last, holds the nonce this worker wrote
\* last, whatever the other workers have written since.
C26_BufferIsPrivate ==
    prog \in {"cli", "b4"} =>
        \A t \in Workers :
            hashed[t] # <<>> =>
                /\ SubSeq(buffer[t], SlotOf + 1, SlotOf + 8)
                        = NonceBytes(LastHashed(t))
                /\ SubSeq(preimage[t], SlotOf + 1, SlotOf + 8)
                        = NonceBytes(LastHashed(t))

\* C26 happens: two workers have written different nonces into their
\* buffers, the one after the other.
C26_Witness ==
    /\ prog \in {"cli", "b4"}
    /\ \E t1 \in Workers : \E t2 \in Workers :
        /\ hashed[t1] # <<>> /\ hashed[t2] # <<>>
        /\ LastHashed(t1) # LastHashed(t2)
        /\ Len(hashed[t2]) >= 2

\* The number of values of a nonce.
Modulus == U64_MAX + 1

\* C28: in mine_hashes (2_main.rs), for every nonce n the update gives
\* (n - T) mod 2^64 for the worker count T, every value it computes on the
\* way lies within the 64-bit range, and so there is always a next nonce.
C28_DescentIsExactWraparound ==
    prog = "h2" =>
        /\ \A n \in 0..U64_MAX :
            /\ \A i \in 1..Len(next_nonce_2_steps(n)) :
                next_nonce_2_steps(n)[i] \in 0..U64_MAX
            /\ next_nonce_2(n) = (n + Modulus - num_threads) % Modulus
        /\ \A t \in Workers : nonce[t] \in 0..U64_MAX

\* C28 happens: a worker that started at u64::MAX - thread_id has gone below
\* zero and hashed on from the top.
C28_Witness ==
    /\ prog = "h2"
    /\ num_threads >= 2
    /\ \E t \in Workers : \E i \in 1..(Len(hashed[t]) - 1) :
        /\ hashed[t][1] = U64_MAX - t
        /\ hashed[t][i] < num_threads
        /\ hashed[t][i + 1] > hashed[t][i]

\* The block buffer carrying nonce n: the template with the 8 bytes of n in
\* its nonce slot.
BlockWith(n) ==
    LET tpl == BlockDataOf(block_args) IN
        SubSeq(tpl.combined_data, 1, tpl.nonce_position)
            \o NonceBytes(n)
            \o SubSeq(tpl.combined_data, tpl.nonce_position + 9,
                      Len(tpl.combined_data))

\* The bytes the program hashes for nonce n.
PreimageOf(n) ==
    IF prog = "p5" THEN input \o to_le_bytes(U64(0, 0, 0, n)) ELSE BlockWith(n)

\* The acceptance test of the program.
Accepts(h) == IF prog = "p5" THEN starts_with(h, prefix) ELSE check_difficulty(h)

\* C29: when find_nonce_with_prefix (5_main.rs) or mine_block (3_main.rs,
\* 4_main.rs) has returned a pair (nonce, hash), hash is the digest of the
\* preimage carrying that nonce, it passes the acceptance test, and one
\* worker hashed that preimage last and got that digest: nonce and hash are
\* never those of two different workers.
C29_ReturnedPairIsConsistent ==
    (prog \in {"p5", "b3", "b4"} /\ cpc = "returned" /\ solution # None) =>
        /\ Len(solution) = 2
        /\ solution[2] = H[solution[1]]
        /\ Accepts(solution[2])
        /\ \E t \in Workers :
            /\ hashed[t] # <<>>
            /\ LastHashed(t) = solution[1]
            /\ hash[t] = solution[2]
            /\ preimage[t] = PreimageOf(solution[1])
            /\ prog = "p5" => \A i \in 1..Len(slot_writes) : slot_writes[i][1] = t
        /\ prog = "b3" => final_data = BlockWith(solution[1])

\* C29 happens: a pair has been returned after two workers had each hashed
\* a nonce, the returned nonce is not 0 and another worker holds another
\* digest.
C29_Witness ==
    /\ prog \in {"p5", "b3", "b4"}
    /\ cpc = "returned"
    /\ solution # None
    /\ solution[1] # 0
    /\ \E t \in Workers : hashed[t] # <<>> /\ hash[t] # solution[2]

\* Every worker of the program has terminated.
AllTerminated == \A t \in Workers : pc[t] = "done"

\* A worker has handed over a result: its return value (0_main.rs,
\* 1_main.rs) or the two fields of the result slot (5_main.rs).
SomeResult ==
    IF prog = "p5"
    THEN /\ found
         /\ \E t \in Workers :
                /\ <<t, "nonce">> \in Range(slot_writes)
                /\ <<t, "hash">> \in Range(slot_writes)
    ELSE \E t \in Workers : ret[t] # None

\* C30: in 0_main.rs, 1_main.rs and 5_main.rs, when no thread panics, once
\* every worker has terminated at least one of them has handed over a
\* result; the coordinator never reaches the failing expect (0_main.rs) or
\* unreachable!() (1_main.rs), and find_nonce_with_prefix (5_main.rs) never
\* returns None.
C30_ImpossibleBranchesNotReached ==
    prog \in {"m0", "p1", "p5"} =>
        /\ AllTerminated => SomeResult
        /\ cpc # "panic"
        /\ cpc = "returned" => solution # None

\* C30 happens: every worker has terminated, one of them without a result,
\* and the coordinator has returned after passing over such a worker.
C30_Witness ==
    /\ prog \in {"m0", "p1", "p5"}
    /\ AllTerminated
    /\ cpc = "returned"
    /\ join_i >= 1
    /\ \E t \in Workers : t \notin Range(setters)


\* Some nonce has a digest that passes check_difficulty.
SomeQualifying == \E n \in Nonces : check_difficulty(H[n])

\* C31: in mine_block (3_main.rs, 4_main.rs), when some nonce has a
\* qualifying digest and every thread that can take a step takes one, the
\* search eventually returns a result and every worker has left its loop.
C31_SearchReturnsResult ==
    (prog \in {"b3", "b4"} /\ SomeQualifying)
        ~> (cpc = "returned" /\ \A t \in Workers : pc[t] = "done")


\* The acceptance test of the program of the found flag.
FlagAccepts(h) ==
    CASE prog = "b4" -> check_difficulty(h)
      [] prog = "p5" -> starts_with(h, prefix)
      [] OTHER -> check_difficulty_2(h)

\* The step is one of worker t, who goes on from the digest of the nonce it
\* hashed last, a qualifying one.
SetByFinder(t) ==
    /\ pc'[t] # pc[t]
    /\ \A u \in Workers : u # t => pc'[u] = pc[u]
    /\ hashed[t] # <<>>
    /\ hash[t] = H[LastHashed(t)]
    /\ FlagAccepts(hash[t])
    /\ UNCHANGED <<hashed, hash, coordVars, monitorVars>>

\* C32: in 4_main.rs, 5_main.rs and 2_main.rs the found flag is false until
\* a worker has hashed, no step takes it from true to false, and the step
\* that takes it from false to true is the step of a worker whose last
\* digest qualifies, not one of the monitor or the coordinator.
C32_FoundFlagIsMonotone ==
    /\ []((prog \in {"b4", "p5", "h2"} /\ \A t \in Workers : hashed[t] = <<>>)
            => ~found)
    /\ [][(prog \in {"b4", "p5", "h2"}) =>
            /\ found => found'
            /\ (~found /\ found') => \E t \in Workers : SetByFinder(t)]_vars

\* C32 happens: with the flag set, a second worker has gone through the
\* step that sets it, another thread has read it, and the coordinator has
\* ended.
C32_Witness ==
    /\ prog \in {"b4", "p5", "h2"}
    /\ found
    /\ \E t \in Workers : \E u \in Workers :
        /\ t # u
        /\ pc[t] = "done" /\ pc[u] = "done"
        /\ hashed[t] # <<>> /\ FlagAccepts(hash[t])
        /\ hashed[u] # <<>> /\ FlagAccepts(hash[u])
    /\ cpc \in {"returned", "done"} \/ exited

====
